---- MODULE Spec2Model ----
(***************************************************************************)
(* A model of src/descriptor/tr.rs of rust-miniscript: the Taproot tree    *)
(* (TapTree), the Taproot descriptor (Tr), the leaf iterator, the tree     *)
(* parser, the lazily cached spend info and the satisfaction planner.      *)
(***************************************************************************)
EXTENDS Integers, Sequences, FiniteSets, TLC

VARIABLES
    spine,      \* how the tree under construction is grown: "free", "L" or "R"
    tree,       \* the TapTree value being assembled with TapTree::combine
    desc,       \* the Tr descriptor held by the program (NoDesc before Tr::new)
    res,        \* the record of the last operation and what it returned
    it_pc,      \* TapTreeIter: "idle", "running", "done" or "panic"; "deriving",
                \* "derived" or "derive_panic" inside the derivation of spend_info
    it_stack,   \* TapTreeIter.stack: a sequence of <<depth, node>>, top at the end
    it_out,     \* the items next() has returned so far, in order
    oracle,     \* the Satisfier / AssetProvider handed to the planner
    th,         \* the threads inside Tr::spend_info: where each is, and its locals
    lock,       \* per instance, the holder of the Mutex of Tr.spend_info, NoThread or Poisoned
    arcs,       \* the number of Arc::new so far: the identity of the next Arc
    ncalls,     \* the number of calls of spend_info by the threads so far
    copy        \* the clone of the descriptor (NoDesc before Tr::clone)

vars == <<spine, tree, desc, res, it_pc, it_stack, it_out, oracle,
          th, lock, arcs, ncalls, copy>>

----------------------------------------------------------------------------
(* Bounds of the model.                                                    *)

\* Trees grown freely (any shape, any leaf) have at most this many leaves.
MaxLeaves == 3
\* Spine trees (one leaf hung on every level) are grown up to this height.
MaxHeight == 256
\* The threads that call spend_info concurrently.
NThreads == 2
\* The calls of spend_info the threads make in all.
MaxCalls == 3
\* The trees whose weight is estimated have at most this many leaves.
MaxWeightLeaves == 2

(* Program constants.                                                      *)

\* bitcoin::taproot::TAPROOT_CONTROL_MAX_NODE_COUNT
TAPROOT_CONTROL_MAX_NODE_COUNT == 128
\* The largest value of the u8 depth counter of TapTreeIter.
U8Max == 255

Max(a, b) == IF a >= b THEN a ELSE b

----------------------------------------------------------------------------
(* Keys and leaf scripts (Miniscript<Pk, Tap>), opaque to this file except *)
(* for their keys, their text and their top-level base type.               *)

\* "ku" stands for an uncompressed key, which Tap::check_pk rejects.
Keys == {"k1", "k2", "ku"}

msA == [frag |-> "pk", keys |-> <<"k1">>]
msB == [frag |-> "multi_a", keys |-> <<"k1", "k2">>]
\* A well-typed script of base type V: a Miniscript value, but not a valid
\* top-level script.
msV == [frag |-> "v:pk", keys |-> <<"k2">>]

Scripts == {msA, msB, msV}

\* script.ty.corr.base
BaseType(ms) == IF ms.frag = "v:pk" THEN "V" ELSE "B"

----------------------------------------------------------------------------
(* TapTree                                                                 *)

NoTree == [tag |-> "None"]

Leaf(ms) == [tag |-> "Leaf", ms |-> ms]

(* The children of a Tree are Arc<TapTree>: a tree shares its subtrees with *)
(* the trees it was combined from.  A spine, the tree got from one leaf by  *)
(* combining the tree so far with the leaf pk(k1) on the same side h times, *)
(* is held as such an Arc: its direction and its height stand for the tree, *)
(* and node gives the TapTree behind it.                                    *)
Spine(dir, h) == [tag |-> "Spine", dir |-> dir, height |-> h]

\* The TapTree an Arc points to.
node(t) ==
    IF t.tag # "Spine" THEN t
    ELSE IF t.height = 0 THEN Leaf(msA)
    ELSE [tag |-> "Tree",
          left |-> IF t.dir = "L" THEN Spine("L", t.height - 1) ELSE Leaf(msA),
          right |-> IF t.dir = "L" THEN Leaf(msA) ELSE Spine("R", t.height - 1),
          height |-> t.height]

\* Arc::new of a TapTree: a spine grown by one level is held as a spine.
share(t) ==
    IF /\ t.left.tag = "Spine" /\ t.left.dir = "L" /\ t.right = Leaf(msA)
       /\ t.height = t.left.height + 1
    THEN Spine("L", t.height)
    ELSE IF /\ t.right.tag = "Spine" /\ t.right.dir = "R" /\ t.left = Leaf(msA)
            /\ t.height = t.right.height + 1
    THEN Spine("R", t.height)
    ELSE t

\* TapTree::height
height(t) == IF node(t).tag = "Tree" THEN node(t).height ELSE 0

\* A plausible slip: the height of a branch without the "1 +".
combine_flat(left, right) ==
    share([tag |-> "Tree", left |-> left, right |-> right,
           height |-> Max(height(left), height(right))])

\* TapTree::combine
combine(left, right) ==
    share([tag |-> "Tree", left |-> left, right |-> right,
           height |-> 1 + Max(height(left), height(right))])

\* The number of leaves of a (small) tree.
RECURSIVE NLeaves(_)
NLeaves(t) == IF t.tag = "Tree" THEN NLeaves(t.left) + NLeaves(t.right) ELSE 1

\* All trees with exactly n leaves over the scripts S, built with combine.
RECURSIVE TreesN(_, _)
TreesN(n, S) ==
    IF n = 1 THEN {Leaf(m) : m \in S}
    ELSE UNION {{combine(l, r) : l \in TreesN(k, S), r \in TreesN(n - k, S)} :
                k \in 1..(n - 1)}

TreesUpTo(n, S) == UNION {TreesN(k, S) : k \in 1..n}

----------------------------------------------------------------------------
(* Tr                                                                      *)

None == [tag |-> "None"]
Some(x) == [tag |-> "Some", val |-> x]

NoDesc == [tag |-> "NoDesc"]
NoRes == [op |-> "none"]
NoOracle == [tag |-> "NoOracle"]

\* The threads that call spend_info on the one descriptor.
Threads == 1..NThreads
NoThread == 0
\* The two instances: the descriptor and its clone, each with its own Mutex.
Instances == {"desc", "copy"}
\* std::sync::Mutex after a thread panicked while holding its guard.
Poisoned == -1
NotCalling == [pc |-> "idle", on |-> "desc", mine |-> None, ret |-> None]

\* No thread is in spend_info, the Mutexes are free, no Arc has been made,
\* and the descriptor has not been cloned.
NoThreads ==
    /\ th = [t \in Threads |-> NotCalling]
    /\ lock = [i \in Instances |-> NoThread]
    /\ arcs = 0
    /\ ncalls = 0
    /\ copy = NoDesc

Ok(v) == [ok |-> TRUE, val |-> v]
Err(e) == [ok |-> FALSE, err |-> e]

\* Tap::check_pk: a Taproot key must not be uncompressed.
check_pk(key) == key # "ku"

\* A slip in the bound: "<" where Tr::new has "<=".
Tr_new_strict(internal_key, t) ==
    IF ~check_pk(internal_key) THEN Err("ContextError")
    ELSE IF height(t) < TAPROOT_CONTROL_MAX_NODE_COUNT
         THEN Ok([tag |-> "Tr", internal_key |-> internal_key, tree |-> t,
                  spend_info |-> None])
         ELSE Err("MaxRecursiveDepthExceeded")

\* A slip: the height of the tree is not checked.
Tr_new_unchecked(internal_key, t) ==
    IF ~check_pk(internal_key) THEN Err("ContextError")
    ELSE Ok([tag |-> "Tr", internal_key |-> internal_key, tree |-> t,
             spend_info |-> None])

\* Tr::new; t is NoTree for Option::None (height(NoTree) = 0 is the unwrap_or(0)).
Tr_new(internal_key, t) ==
    IF ~check_pk(internal_key) THEN Err("ContextError")
    ELSE IF height(t) <= TAPROOT_CONTROL_MAX_NODE_COUNT
         THEN Ok([tag |-> "Tr", internal_key |-> internal_key, tree |-> t,
                  spend_info |-> None])
         ELSE Err("MaxRecursiveDepthExceeded")

----------------------------------------------------------------------------
(* The program: a tree is assembled, then moved into a descriptor.         *)

\* The heights at which spine trees are handed to the other operations: the
\* two sides of the depth limit and of the range of the u8 depth counter.
ProbeHeights == {TAPROOT_CONTROL_MAX_NODE_COUNT, TAPROOT_CONTROL_MAX_NODE_COUNT + 1,
                 U8Max, U8Max + 1}

Probed == \/ spine = "free"
          \/ height(tree) \in ProbeHeights

Building == desc = NoDesc /\ it_pc = "idle"

Init ==
    /\ spine \in {"free", "L", "R"}
    /\ tree \in IF spine = "free" THEN {Leaf(m) : m \in Scripts} ELSE {Spine(spine, 0)}
    /\ desc = NoDesc
    /\ res = NoRes
    /\ it_pc = "idle"
    /\ it_stack = <<>>
    /\ it_out = <<>>
    /\ oracle = NoOracle
    /\ NoThreads

\* TapTree::combine(tree, s) or TapTree::combine(s, tree).
Combine(s, side) ==
    /\ Building
    /\ \/ spine = "free" /\ NLeaves(tree) + NLeaves(s) <= MaxLeaves
       \/ spine # "free" /\ s = Leaf(msA) /\ height(tree) < MaxHeight
          /\ side = (IF spine = "L" THEN "right" ELSE "left")
    /\ tree' = IF side = "right" THEN combine(tree, s) ELSE combine(s, tree)
    /\ res' = [op |-> "combine",
               left |-> IF side = "right" THEN tree ELSE s,
               right |-> IF side = "right" THEN s ELSE tree]
    /\ UNCHANGED <<spine, desc, it_pc, it_stack, it_out, oracle, th, lock, arcs, ncalls, copy>>

\* Tr::new(key, Some(tree)) or Tr::new(key, None).
TrNew(key, t) ==
    /\ Building
    /\ Probed
    /\ LET r == Tr_new(key, t)
       IN /\ res' = [op |-> "new", key |-> key, tree |-> t, result |-> r]
          /\ desc' = IF r.ok THEN r.val ELSE NoDesc
    /\ UNCHANGED <<spine, tree, it_pc, it_stack, it_out, oracle, th, lock, arcs, ncalls, copy>>

----------------------------------------------------------------------------
(* TapTreeIter                                                             *)

\* depth + 1 on a u8, in a build without overflow checks.
U8Add1(depth) == (depth + 1) % (U8Max + 1)

\* A slip in the order of the two pushes: left below right, so that the
\* right subtree is popped, and so yielded, first.
iter_push_swapped(stack, depth, last) ==
    stack \o << <<depth, last.left>>, <<depth, last.right>> >>

\* A slip: the children are pushed two levels below their parent.
iter_push_deeper(stack, depth, last) ==
    stack \o << <<depth + 1, last.right>>, <<depth + 1, last.left>> >>

\* TapTreeIter::next, the Tree arm: push the right child, then the left child.
iter_push(stack, depth, last) ==
    stack \o << <<depth, last.right>>, <<depth, last.left>> >>

\* The tree the running iterator borrows.
it_src == IF desc = NoDesc THEN tree ELSE desc.tree

\* TapTree::iter on the tree under construction.
IterTree ==
    /\ Building
    /\ Probed
    /\ it_pc' = "running"
    /\ it_stack' = << <<0, tree>> >>
    /\ it_out' = <<>>
    /\ res' = [op |-> "iter", steps |-> 0]
    /\ UNCHANGED <<spine, tree, desc, oracle, th, lock, arcs, ncalls, copy>>

\* Tr::iter_scripts: the tree's iterator, or an empty stack without a tree.
IterScripts ==
    /\ desc # NoDesc
    /\ it_pc = "idle"
    /\ it_pc' = "running"
    /\ it_stack' = IF desc.tree = NoTree THEN <<>> ELSE << <<0, desc.tree>> >>
    /\ it_out' = <<>>
    /\ res' = [op |-> "iter_scripts", steps |-> 0]
    /\ UNCHANGED <<spine, tree, desc, oracle, th, lock, arcs, ncalls, copy>>

\* One turn of the loop of TapTreeIter::next: pop the top entry; push the
\* children of a Tree, or return a Leaf with its depth.  res counts the
\* turns.
IterStep ==
    /\ it_pc = "running"
    /\ it_stack # <<>>
    /\ LET n == Len(it_stack)
           depth == it_stack[n][1]
           last == node(it_stack[n][2])
           rest == SubSeq(it_stack, 1, n - 1)
       IN IF last.tag = "Tree"
          THEN \/ /\ depth < U8Max
                  /\ it_stack' = iter_push(rest, depth + 1, last)
                  /\ UNCHANGED <<it_pc, it_out>>
               \* depth + 1 overflows the u8: the addition wraps ...
               \/ /\ depth = U8Max
                  /\ it_stack' = iter_push(rest, U8Add1(depth), last)
                  /\ UNCHANGED <<it_pc, it_out>>
               \* ... or, with overflow checks, panics.
               \/ /\ depth = U8Max
                  /\ it_pc' = "panic"
                  /\ it_stack' = rest
                  /\ UNCHANGED it_out
          ELSE /\ it_out' = Append(it_out, <<depth, last.ms>>)
               /\ it_stack' = rest
               /\ UNCHANGED it_pc
    /\ res' = [res EXCEPT !.steps = @ + 1]
    /\ UNCHANGED <<spine, tree, desc, oracle, th, lock, arcs, ncalls, copy>>

\* TapTreeIter::next with an empty stack: the loop ends and next returns None.
IterEnd ==
    /\ it_pc = "running"
    /\ it_stack = <<>>
    /\ it_pc' = "done"
    /\ UNCHANGED <<spine, tree, desc, res, it_stack, it_out, oracle, th, lock, arcs, ncalls, copy>>

----------------------------------------------------------------------------
(* Display: the text of a descriptor, as a sequence of tokens.             *)

RECURSIVE JoinKeys(_, _)
JoinKeys(keys, i) ==
    IF i > Len(keys) THEN <<>>
    ELSE (IF i > 1 THEN <<",">> ELSE <<>>) \o <<keys[i]>> \o JoinKeys(keys, i + 1)

\* Display of a Miniscript leaf: frag(key,...,key).
DisplayMs(ms) == <<ms.frag, "(">> \o JoinKeys(ms.keys, 1) \o <<")">>

\* A slip in the order of the children: "{right,left}".
RECURSIVE DisplayTree_swapped(_)
DisplayTree_swapped(t) ==
    IF t.tag = "Tree"
    THEN <<"{">> \o DisplayTree_swapped(t.right) \o <<",">>
                 \o DisplayTree_swapped(t.left) \o <<"}">>
    ELSE DisplayMs(t.ms)

\* impl Display for TapTree: "{left,right}" for a Tree, the script for a Leaf.
RECURSIVE DisplayTree(_)
DisplayTree(t) ==
    IF t.tag = "Tree"
    THEN <<"{">> \o DisplayTree(t.left) \o <<",">> \o DisplayTree(t.right) \o <<"}">>
    ELSE DisplayMs(t.ms)

\* impl Display for Tr: "tr(key,tree)" or "tr(key)".  The checksum suffix is
\* written by checksum::Formatter and removed again by expression::Tree::from_str.
DisplayTr(d) ==
    <<"tr", "(", d.internal_key>>
    \o (IF d.tree = NoTree THEN <<>> ELSE <<",">> \o DisplayTree(d.tree))
    \o <<")">>

----------------------------------------------------------------------------
(* expression::Tree: the generic expression tree of a text, its nodes in   *)
(* pre-order.  A node is "name", "name(...)", "name{...}" or, unnamed,     *)
(* "(...)" or "{...}".                                                     *)

Opens == {"(", "{"}
Closes == {")", "}"}
IsName(toks, p) == p \in 1..Len(toks) /\ toks[p] \notin Opens \cup Closes \cup {","}

\* The positions at which a node starts.
NodeStarts(toks) ==
    {p \in 1..Len(toks) :
        \/ IsName(toks, p)
        \/ toks[p] \in Opens /\ ~IsName(toks, p - 1)}

\* The number of brackets open at each position.
Nesting(toks) ==
    [p \in 1..Len(toks) |->
        Cardinality({q \in 1..(p - 1) : toks[q] \in Opens})
        - Cardinality({q \in 1..(p - 1) : toks[q] \in Closes})]

\* The position of the bracket of the node starting at p, 0 without one.
BracketOf(toks, p) ==
    IF IsName(toks, p)
    THEN (IF p < Len(toks) /\ toks[p + 1] \in Opens THEN p + 1 ELSE 0)
    ELSE p

\* The start of the node whose bracket encloses the node starting at p (the
\* last bracket opened before p one level further out), 0 at the top.
ParentStart(toks, nest, p) ==
    IF nest[p] = 0 THEN 0
    ELSE LET outer == {q \in 1..(p - 1) : toks[q] \in Opens /\ nest[q] = nest[p] - 1}
             q == CHOOSE q \in outer : \A r \in outer : r <= q
         IN IF IsName(toks, q - 1) THEN q - 1 ELSE q

\* expression::Tree::from_str: the nodes of the text in pre-order, each with
\* its name, its kind of parentheses, its parent's index and its children.
ExprTree(toks) ==
    LET starts == NodeStarts(toks)
        nest == Nesting(toks)
        \* the pre-order index of the node starting at p
        indexOf == [p \in starts |-> Cardinality({q \in starts : q <= p})]
        parentStart == [p \in starts |-> ParentStart(toks, nest, p)]
        startOf == [i \in 1..Cardinality(starts) |-> CHOOSE p \in starts : indexOf[p] = i]
    IN [i \in 1..Cardinality(starts) |->
          LET p == startOf[i]
              b == BracketOf(toks, p)
          IN [name |-> IF IsName(toks, p) THEN toks[p] ELSE "",
              parens |-> IF b = 0 THEN "None"
                         ELSE IF toks[b] = "(" THEN "Round" ELSE "Curly",
              parent |-> IF parentStart[p] = 0 THEN 0 ELSE indexOf[parentStart[p]],
              n_children |-> Cardinality({c \in starts : parentStart[c] = p})]]

\* The children of node i, in order.
ChildrenOf(nodes, i) ==
    LET cs == {c \in 1..Len(nodes) : nodes[c].parent = i}
    IN [k \in 1..Cardinality(cs) |->
          CHOOSE c \in cs : Cardinality({x \in cs : x <= c}) = k]

\* The last node of the subtree of node i (the nodes of a subtree are
\* consecutive in pre-order).
SubtreeEnd(nodes, i) ==
    CHOOSE j \in i..Len(nodes) :
        /\ \A k \in (i + 1)..j : nodes[k].parent >= i
        /\ j = Len(nodes) \/ nodes[j + 1].parent < i

----------------------------------------------------------------------------
(* impl FromTree for Tr                                                    *)

Panic(what) == [ok |-> FALSE, err |-> "panic", what |-> what]

Frags == {"pk", "multi_a", "v:pk"}

\* Miniscript::from_tree on node i: a known fragment applied to keys.
MiniscriptFromTree(nodes, i) ==
    LET cs == ChildrenOf(nodes, i)
    IN IF /\ nodes[i].name \in Frags
          /\ nodes[i].parens = "Round"
          /\ Len(cs) >= 1
          /\ \A k \in 1..Len(cs) : nodes[cs[k]].n_children = 0
       THEN Ok([frag |-> nodes[i].name, keys |-> [k \in 1..Len(cs) |-> nodes[cs[k]].name]])
       ELSE Err("Parse")

\* A slip in the order of the operands: the tree being pushed becomes the
\* left child.
RECURSIVE push_swapped(_, _, _, _)
push_swapped(nodes, inner, parent, t) ==
    IF inner # <<>> /\ inner[Len(inner)].parent = parent
    THEN LET top == inner[Len(inner)]
         IN IF nodes[top.parent].parent = 0
            THEN [panicked |-> TRUE, inner |-> inner]
            ELSE push_swapped(nodes, SubSeq(inner, 1, Len(inner) - 1),
                              nodes[top.parent].parent, combine(t, top.tree))
    ELSE [panicked |-> FALSE, inner |-> Append(inner, [parent |-> parent, tree |-> t])]

\* TreeStack::push: while the top of the stack is tagged with the same parent
\* node, pop it, combine it (as the left child) with the tree being pushed and
\* tag the result with that node's parent; then push.  parent().unwrap()
\* panics on a node without a parent.
RECURSIVE push(_, _, _, _)
push(nodes, inner, parent, t) ==
    IF inner # <<>> /\ inner[Len(inner)].parent = parent
    THEN LET top == inner[Len(inner)]
         IN IF nodes[top.parent].parent = 0
            THEN [panicked |-> TRUE, inner |-> inner]
            ELSE push(nodes, SubSeq(inner, 1, Len(inner) - 1),
                      nodes[top.parent].parent, combine(top.tree, t))
    ELSE [panicked |-> FALSE, inner |-> Append(inner, [parent |-> parent, tree |-> t])]

\* A slip: the child count of a brace is checked before its name.
RECURSIVE tree_loop_count_first(_, _, _, _)
tree_loop_count_first(nodes, i, last, inner) ==
    IF i > last THEN Ok(inner)
    ELSE IF nodes[i].parens = "Curly"
    THEN IF nodes[i].n_children # 2 THEN Err("Parse: taptree branch")
         ELSE IF nodes[i].name # "" THEN Err("Parse: IncorrectName")
         ELSE tree_loop_count_first(nodes, i + 1, last, inner)
    ELSE LET script == MiniscriptFromTree(nodes, i)
         IN IF ~script.ok THEN script
            ELSE IF BaseType(script.val) # "B" THEN Err("NonTopLevel")
            ELSE IF nodes[i].parent = 0 THEN Panic("parent().unwrap()")
            ELSE LET pushed == push(nodes, inner, nodes[i].parent, Leaf(script.val))
                 IN IF pushed.panicked THEN Panic("parent().unwrap()")
                    ELSE tree_loop_count_first(nodes, SubtreeEnd(nodes, i) + 1, last,
                                               pushed.inner)

\* The loop of from_tree over the nodes i..last in pre-order: the reduction
\* stack at its end, or the error that ended it.
RECURSIVE tree_loop(_, _, _, _)
tree_loop(nodes, i, last, inner) ==
    IF i > last THEN Ok(inner)
    ELSE IF nodes[i].parens = "Curly"
    THEN IF nodes[i].name # "" THEN Err("Parse: IncorrectName")
         ELSE IF nodes[i].n_children # 2 THEN Err("Parse: taptree branch")
         ELSE tree_loop(nodes, i + 1, last, inner)
    ELSE LET script == MiniscriptFromTree(nodes, i)
         IN IF ~script.ok THEN script
            ELSE IF BaseType(script.val) # "B" THEN Err("NonTopLevel")
            ELSE IF nodes[i].parent = 0 THEN Panic("parent().unwrap()")
            ELSE LET pushed == push(nodes, inner, nodes[i].parent, Leaf(script.val))
                 IN IF pushed.panicked THEN Panic("parent().unwrap()")
                    \* skip_descendants
                    ELSE tree_loop(nodes, SubtreeEnd(nodes, i) + 1, last, pushed.inner)

\* Tr::from_tree, on the nodes of an expression tree.
from_tree(nodes) ==
    \* verify_toplevel("tr", 1..=2)
    IF ~(/\ Len(nodes) >= 1
         /\ nodes[1].name = "tr"
         /\ nodes[1].parens = "Round"
         /\ nodes[1].n_children \in 1..2)
    THEN Err("Parse")
    ELSE LET root_children == ChildrenOf(nodes, 1)
             key_node == nodes[root_children[1]]
         IN \* verify_terminal("internal key")
            IF key_node.n_children # 0 \/ key_node.name \notin Keys THEN Err("Parse")
            ELSE IF Len(root_children) = 1 THEN Tr_new(key_node.name, NoTree)
            ELSE LET tap_tree == root_children[2]
                     looped == tree_loop(nodes, tap_tree, SubtreeEnd(nodes, tap_tree), <<>>)
                 IN IF ~looped.ok THEN looped
                    \* pop_final: assert_eq!(self.inner.len(), 1)
                    ELSE IF Len(looped.val) # 1 THEN Panic("assert_eq!(self.inner.len(), 1)")
                    ELSE Tr_new(key_node.name, looped.val[1].tree)

\* Tr::from_str
from_str(toks) == from_tree(ExprTree(toks))

\* The texts of t with a defect at its first node: a brace that has a name,
\* one child or three children, or a name and one child; a leaf that is a
\* name alone or a script of base type V.
TopDefects(t) ==
    IF t.tag = "Tree"
    THEN LET l == DisplayTree(t.left)
             r == DisplayTree(t.right)
         IN {<<"x", "{">> \o l \o <<",">> \o r \o <<"}">>,
             <<"{">> \o l \o <<"}">>,
             <<"{">> \o l \o <<",">> \o r \o <<",">> \o r \o <<"}">>,
             <<"x", "{">> \o l \o <<"}">>}
    ELSE {<<t.ms.frag>>, DisplayMs(msV)}

\* The texts of a tree expression that is t without a defect, with one
\* defect at any node, or with one anywhere in the left child of a brace and
\* one at the first node of its right child.
RECURSIVE DefectTexts(_)
DefectTexts(t) ==
    IF t.tag = "Tree"
    THEN LET l == DisplayTree(t.left)
             r == DisplayTree(t.right)
         IN {<<"{">> \o l \o <<",">> \o r \o <<"}">>}
            \cup TopDefects(t)
            \cup {<<"{">> \o x \o <<",">> \o r \o <<"}">> : x \in DefectTexts(t.left)}
            \cup {<<"{">> \o l \o <<",">> \o y \o <<"}">> : y \in DefectTexts(t.right)}
            \cup {<<"{">> \o x \o <<",">> \o y \o <<"}">> :
                     x \in DefectTexts(t.left), y \in TopDefects(t.right)}
    ELSE {DisplayMs(t.ms)} \cup TopDefects(t)

\* The texts handed to the parser for a tree: "tr(k1,<expression>)" for
\* each of its expressions, and "tr(k1)".
TextsOf(t) ==
    {<<"tr", "(", "k1", ",">> \o e \o <<")">> : e \in DefectTexts(t)}
    \cup {<<"tr", "(", "k1", ")">>}

\* Tr::from_str on a text: the descriptor, if there is one, is returned.
ParseText(toks) ==
    /\ desc = NoDesc
    /\ res = NoRes
    /\ LET r == from_str(toks)
       IN /\ res' = [op |-> "parse_text", text |-> toks, result |-> r]
          /\ desc' = IF r.ok THEN r.val ELSE desc
    /\ UNCHANGED <<spine, tree, it_pc, it_stack, it_out, oracle, th, lock, arcs, ncalls, copy>>

\* The trees whose expressions are parsed: every tree of up to MaxLeaves
\* leaves.
InitParse ==
    /\ spine = "free"
    /\ tree \in TreesUpTo(MaxLeaves, {msA, msB})
    /\ desc = NoDesc
    /\ res = NoRes
    /\ it_pc = "idle"
    /\ it_stack = <<>>
    /\ it_out = <<>>
    /\ oracle = NoOracle
    /\ NoThreads

NextParse == \E toks \in TextsOf(tree) : ParseText(toks)

SpecParse == InitParse /\ [][NextParse]_vars

----------------------------------------------------------------------------
(* Key translation                                                         *)

\* The translators: each maps a key to Ok(key) or to an error.
TSwap == [k \in Keys |-> Ok(IF k = "k1" THEN "k2" ELSE IF k = "k2" THEN "k1" ELSE k)]
TFail == [k \in Keys |-> IF k = "k2" THEN Err("Translate") ELSE Ok(k)]
TBad == [k \in Keys |-> Ok(IF k = "k1" THEN "ku" ELSE k)]
Translators == {TSwap, TFail, TBad}

\* Miniscript::translate_pk: the keys of the leaf in order, stopping at the
\* first the translator fails on.  calls is the log of the keys handed to
\* the translator.
RECURSIVE ms_translate_pk(_, _, _, _, _)
ms_translate_pk(ms, T, i, done, calls) ==
    IF i > Len(ms.keys)
    THEN [ok |-> TRUE, val |-> [frag |-> ms.frag, keys |-> done], calls |-> calls]
    ELSE LET r == T[ms.keys[i]]
         IN IF r.ok
            THEN ms_translate_pk(ms, T, i + 1, Append(done, r.val), Append(calls, ms.keys[i]))
            ELSE [ok |-> FALSE, err |-> r.err, calls |-> Append(calls, ms.keys[i])]

\* A slip: the height of the translated branch is recomputed from the left
\* child alone.
RECURSIVE translate_helper_left(_, _, _)
translate_helper_left(t, T, calls) ==
    IF t.tag = "Tree"
    THEN LET l == translate_helper_left(t.left, T, calls)
         IN IF ~l.ok THEN l
            ELSE LET r == translate_helper_left(t.right, T, l.calls)
                 IN IF ~r.ok THEN r
                    ELSE [ok |-> TRUE,
                          val |-> [tag |-> "Tree", left |-> l.val, right |-> r.val,
                                   height |-> 1 + height(l.val)],
                          calls |-> r.calls]
    ELSE LET m == ms_translate_pk(t.ms, T, 1, <<>>, calls)
         IN IF m.ok THEN [ok |-> TRUE, val |-> Leaf(m.val), calls |-> m.calls] ELSE m

\* A slip: the right child is translated although the left one failed.
RECURSIVE translate_helper_eager(_, _, _)
translate_helper_eager(t, T, calls) ==
    IF t.tag = "Tree"
    THEN LET l == translate_helper_eager(t.left, T, calls)
             r == translate_helper_eager(t.right, T, l.calls)
         IN IF ~l.ok THEN [l EXCEPT !.calls = r.calls]
            ELSE IF ~r.ok THEN r
                 ELSE [ok |-> TRUE,
                       val |-> [tag |-> "Tree", left |-> l.val, right |-> r.val,
                                height |-> t.height],
                       calls |-> r.calls]
    ELSE LET m == ms_translate_pk(t.ms, T, 1, <<>>, calls)
         IN IF m.ok THEN [ok |-> TRUE, val |-> Leaf(m.val), calls |-> m.calls] ELSE m

\* TapTree::translate_helper: left, then right (each "?" returns the error at
\* once), the height copied.
RECURSIVE translate_helper(_, _, _)
translate_helper(t, T, calls) ==
    IF t.tag = "Tree"
    THEN LET l == translate_helper(t.left, T, calls)
         IN IF ~l.ok THEN l
            ELSE LET r == translate_helper(t.right, T, l.calls)
                 IN IF ~r.ok THEN r
                    ELSE [ok |-> TRUE,
                          val |-> [tag |-> "Tree", left |-> l.val, right |-> r.val,
                                   height |-> t.height],
                          calls |-> r.calls]
    ELSE LET m == ms_translate_pk(t.ms, T, 1, <<>>, calls)
         IN IF m.ok THEN [ok |-> TRUE, val |-> Leaf(m.val), calls |-> m.calls] ELSE m

\* Tr::translate_pk: the tree, then the internal key, then Tr::new.
translate_pk(d, T) ==
    LET tr == IF d.tree = NoTree THEN [ok |-> TRUE, val |-> NoTree, calls |-> <<>>]
              ELSE translate_helper(d.tree, T, <<>>)
    IN IF ~tr.ok THEN tr
       ELSE LET k == T[d.internal_key]
                calls == Append(tr.calls, d.internal_key)
            IN IF ~k.ok THEN [ok |-> FALSE, err |-> k.err, calls |-> calls]
               ELSE LET n == Tr_new(k.val, tr.val)
                    IN IF n.ok THEN [ok |-> TRUE, val |-> n.val, calls |-> calls]
                       ELSE [ok |-> FALSE, err |-> "OuterError", outer |-> n.err,
                             calls |-> calls]

----------------------------------------------------------------------------
(* Tr::iter_scripts as a whole.                                            *)

\* The whole run of an iterator: the items next() returns until it returns
\* None (the depths of a descriptor's tree stay below the u8 range).
RECURSIVE iter_all(_, _)
iter_all(stack, out) ==
    IF stack = <<>> THEN out
    ELSE LET n == Len(stack)
             depth == stack[n][1]
             last == node(stack[n][2])
             rest == SubSeq(stack, 1, n - 1)
         IN IF last.tag = "Tree"
            THEN iter_all(iter_push(rest, depth + 1, last), out)
            ELSE iter_all(rest, Append(out, <<depth, last.ms>>))

\* Tr::iter_scripts, run to its end.
iter_scripts(d) ==
    iter_all(IF d.tree = NoTree THEN <<>> ELSE << <<0, d.tree>> >>, <<>>)

----------------------------------------------------------------------------
(* for_each_key                                                            *)

\* The predicates handed to for_each_key: true of a set of keys.
KeyPreds == {[k \in Keys |-> k \in S] : S \in SUBSET {"k1", "k2"}}

\* Miniscript::for_each_key: the keys of the leaf in order, up to the first
\* the predicate is false of.  calls is the log of the keys handed to the
\* predicate.
RECURSIVE ms_for_each_key(_, _, _, _)
ms_for_each_key(ms, pred, i, calls) ==
    IF i > Len(ms.keys) THEN [ret |-> TRUE, calls |-> calls]
    ELSE IF pred[ms.keys[i]]
         THEN ms_for_each_key(ms, pred, i + 1, Append(calls, ms.keys[i]))
         ELSE [ret |-> FALSE, calls |-> Append(calls, ms.keys[i])]

\* self.iter_scripts().all(|(_d, ms)| ms.for_each_key(&mut pred)): the
\* leaves items[i..], up to the first that gives false.
RECURSIVE all_scripts(_, _, _, _)
all_scripts(items, i, pred, calls) ==
    IF i > Len(items) THEN [ret |-> TRUE, calls |-> calls]
    ELSE LET r == ms_for_each_key(items[i][2], pred, 1, calls)
         IN IF r.ret THEN all_scripts(items, i + 1, pred, r.calls) ELSE r

\* A slip: "&" for "&&", the predicate is asked about the internal key
\* whatever the leaves gave.
for_each_key_eager(d, pred) ==
    LET script_keys_res == all_scripts(iter_scripts(d), 1, pred, <<>>)
    IN [ret |-> script_keys_res.ret /\ pred[d.internal_key],
        calls |-> Append(script_keys_res.calls, d.internal_key)]

\* impl ForEachKey for Tr: script_keys_res && pred(&self.internal_key)
for_each_key(d, pred) ==
    LET script_keys_res == all_scripts(iter_scripts(d), 1, pred, <<>>)
    IN IF script_keys_res.ret
       THEN [ret |-> pred[d.internal_key],
             calls |-> Append(script_keys_res.calls, d.internal_key)]
       ELSE script_keys_res

----------------------------------------------------------------------------
(* TaprootBuilder: the Merkle builder of the bitcoin crate.  branch holds, *)
(* per depth, the finished subtree that waits for its sibling, if any; a   *)
(* subtree is known by its leaves and the lengths of their Merkle branches.*)

\* The length in bytes of the script of a leaf (Miniscript::script_size).
ScriptSize(ms) ==
    CASE ms.frag = "pk" -> 34
      [] ms.frag = "v:pk" -> 34
      [] ms.frag = "and_v(v:pk,after)" -> 36
      [] ms.frag = "multi_a" -> 70
      [] ms.frag = "1" -> 1
      [] ms.frag = "0" -> 1

\* Miniscript::encode: the script of a leaf.
encode(ms) == [script_of |-> ms, len |-> ScriptSize(ms)]

\* TaprootBuilder::new()
TaprootBuilder_new == [ok |-> TRUE, branch |-> <<>>]

\* NodeInfo::new_leaf_with_ver
new_leaf(script) == [leaves |-> {[script |-> script, branch_len |-> 0]}]

\* The leaves of a subtree that is put k levels lower.
Deepen(leaves, k) == {[l EXCEPT !.branch_len = @ + k] : l \in leaves}

\* The number of entries at the end of a branch that hold a subtree.
TrailingSome(branch) ==
    CHOOSE k \in 0..Len(branch) :
        /\ \A j \in (Len(branch) - k + 1)..Len(branch) : branch[j] # None
        /\ k < Len(branch) => branch[Len(branch) - k] = None

\* TaprootBuilder::insert: a node at a depth.  While the entry of the depth
\* holds a sibling the two are combined and the result goes one level up;
\* then the node is put at its depth.
insert(builder, n, depth) ==
    LET branch == builder.branch
        len == Len(branch)
        k == IF len = depth + 1 THEN TrailingSome(branch) ELSE 0
        combined ==
            [leaves |-> Deepen(n.leaves, k) \cup
                        UNION {Deepen(branch[len - j + 1].val.leaves, k - j + 1) :
                                  j \in 1..k}]
        kept == SubSeq(branch, 1, len - k)
    IN IF ~builder.ok THEN builder
       ELSE IF depth > TAPROOT_CONTROL_MAX_NODE_COUNT THEN Err("InvalidMerkleTreeDepth")
       ELSE IF depth + 1 < len THEN Err("NodeNotInDfsOrder")
       ELSE IF len = depth + 1 /\ k = len THEN Err("OverCompleteTree")
       ELSE IF \E l \in combined.leaves : l.branch_len > TAPROOT_CONTROL_MAX_NODE_COUNT
       THEN Err("InvalidMerkleBranchSize")
       ELSE [ok |-> TRUE,
             branch |-> [i \in 1..(depth - k + 1) |->
                            IF i = depth - k + 1 THEN Some(combined)
                            ELSE IF i <= Len(kept) THEN kept[i] ELSE None]]

\* TaprootBuilder::add_leaf(depth, script)
add_leaf(builder, depth, script) == insert(builder, new_leaf(script), depth)

\* TaprootBuilder::finalize: the one subtree at depth 0; an error for a
\* branch with a subtree that waits for a sibling.
finalize(builder) ==
    IF ~builder.ok THEN builder
    ELSE IF Len(builder.branch) > 1 THEN Err("IncompleteTree")
    ELSE IF builder.branch = <<>> THEN Ok([leaves |-> {}])
    ELSE IF builder.branch[1] = None THEN Err("depth 0 cannot be none")
    ELSE Ok(builder.branch[1].val)

\* The loop of spend_info over iter_scripts, from item i on: every leaf is
\* added at its depth.
RECURSIVE add_leaves(_, _, _)
add_leaves(builder, items, i) ==
    IF i > Len(items) THEN builder
    ELSE CHOOSE r \in {add_leaves(added, items, i + 1) :
                          added \in {add_leaf(builder, items[i][1], encode(items[i][2]))}} :
             TRUE

(* The derivation of spend_info for a descriptor with a tree, one turn of  *)
(* the iterator's loop at a time: it_pc is "deriving", then "derived" or   *)
(* "derive_panic".                                                         *)

\* let mut builder = TaprootBuilder::new(); self.iter_scripts()
DeriveStart ==
    /\ desc # NoDesc
    /\ it_pc = "idle"
    /\ desc.tree # NoTree
    /\ it_pc' = "deriving"
    /\ it_stack' = << <<0, desc.tree>> >>
    /\ it_out' = <<>>
    /\ res' = [op |-> "spend_info", builder |-> TaprootBuilder_new, data |-> None]
    /\ UNCHANGED <<spine, tree, desc, oracle, th, lock, arcs, ncalls, copy>>

\* One turn of the loop of TapTreeIter::next inside the for loop: the
\* children of a Tree are pushed; a Leaf is returned and added to the
\* builder, and the expect panics on an error.
DeriveStep ==
    /\ it_pc = "deriving"
    /\ it_stack # <<>>
    /\ LET n == Len(it_stack)
           depth == it_stack[n][1]
           last == node(it_stack[n][2])
           rest == SubSeq(it_stack, 1, n - 1)
           added == add_leaf(res.builder, depth, encode(last.ms))
       IN IF last.tag = "Tree"
          THEN \E overflow_panics \in IF depth < U8Max THEN {FALSE} ELSE BOOLEAN :
                  /\ it_stack' = IF overflow_panics THEN rest
                                 ELSE iter_push(rest, U8Add1(depth), last)
                  /\ it_pc' = IF overflow_panics THEN "derive_panic" ELSE it_pc
                  /\ UNCHANGED <<it_out, res>>
          ELSE /\ it_out' = Append(it_out, <<depth, last.ms>>)
               /\ it_stack' = rest
               /\ res' = [res EXCEPT !.builder = added]
               /\ it_pc' = IF added.ok THEN it_pc ELSE "derive_panic"
    /\ UNCHANGED <<spine, tree, desc, oracle, th, lock, arcs, ncalls, copy>>

\* match builder.finalize(..) { Ok(data) => data, Err(_) => unreachable!() }
DeriveFinalize ==
    /\ it_pc = "deriving"
    /\ it_stack = <<>>
    /\ LET data == finalize(res.builder)
       IN /\ it_pc' = IF data.ok THEN "derived" ELSE "derive_panic"
          /\ res' = [res EXCEPT !.data =
                        IF data.ok
                        THEN Some([internal_key |-> desc.internal_key,
                                   merkle_root |-> Some([commits_to |-> desc.tree]),
                                   script_map |-> data.val.leaves])
                        ELSE None]
    /\ UNCHANGED <<spine, tree, desc, it_stack, it_out, oracle, th, lock, arcs, ncalls, copy>>

----------------------------------------------------------------------------
(* Operations on the descriptor.                                           *)

Idle == desc # NoDesc /\ it_pc = "idle"

\* Tr::from_str on the text Display gives for the descriptor.
FromStr ==
    /\ Idle
    /\ spine = "free"
    /\ LET text == DisplayTr(desc)
           r == from_str(text)
       IN /\ res' = [op |-> "parse", from |-> desc, text |-> text, result |-> r]
          /\ desc' = IF r.ok THEN r.val ELSE desc
    /\ UNCHANGED <<spine, tree, it_pc, it_stack, it_out, oracle, th, lock, arcs, ncalls, copy>>

\* Tr::translate_pk with one of the translators: it borrows the descriptor
\* and returns a new one.
TranslatePk(T) ==
    /\ Idle
    /\ spine = "free"
    /\ res' = [op |-> "translate", from |-> desc, translator |-> T,
               result |-> translate_pk(desc, T)]
    /\ UNCHANGED <<spine, tree, desc, it_pc, it_stack, it_out, oracle, th, lock, arcs, ncalls, copy>>

\* Tr::for_each_key
ForEachKey(pred) ==
    /\ Idle
    /\ spine = "free"
    /\ res' = [op |-> "for_each_key", from |-> desc, pred |-> pred,
               result |-> for_each_key(desc, pred)]
    /\ UNCHANGED <<spine, tree, desc, it_pc, it_stack, it_out, oracle, th, lock, arcs, ncalls, copy>>

----------------------------------------------------------------------------
Next ==
    \/ \E s \in TreesUpTo(MaxLeaves - 1, Scripts), side \in {"left", "right"} :
          Combine(s, side)
    \/ \E key \in Keys, t \in {tree, NoTree} : TrNew(key, t)
    \/ FromStr
    \/ \E T \in Translators : TranslatePk(T)
    \/ \E pred \in KeyPreds : ForEachKey(pred)
    \/ IterTree
    \/ IterScripts
    \/ IterStep
    \/ IterEnd
    \/ DeriveStart
    \/ DeriveStep
    \/ DeriveFinalize

Spec == Init /\ [][Next]_vars

----------------------------------------------------------------------------
(* Spend info (bitcoin::taproot::TaprootBuilder and TaprootSpendInfo), as  *)
(* far as the planner reads it.                                            *)

\* bitcoin::taproot::TAPROOT_CONTROL_BASE_SIZE and TAPROOT_CONTROL_NODE_SIZE
TAPROOT_CONTROL_BASE_SIZE == 33
TAPROOT_CONTROL_NODE_SIZE == 32

\* A slip: the internal key is left out of the length.
control_block_len_hashes(depth) == depth * TAPROOT_CONTROL_NODE_SIZE

\* control_block_len
control_block_len(depth) ==
    TAPROOT_CONTROL_BASE_SIZE + depth * TAPROOT_CONTROL_NODE_SIZE

\* The derivation of spend_info: key-spend-only data without a tree; with
\* one, every leaf added at its depth and the builder finalized.  The Merkle
\* root commits to the tree; script_map has the Merkle branch lengths of
\* every script.
derive_spend_info(d) ==
    [internal_key |-> d.internal_key,
     merkle_root |-> IF d.tree = NoTree THEN None ELSE Some([commits_to |-> d.tree]),
     script_map |-> IF d.tree = NoTree THEN {}
                    ELSE CHOOSE script_map \in
                             {finalize(builder).val.leaves :
                                 builder \in {add_leaves(TaprootBuilder_new, items, 1) :
                                                 items \in {iter_scripts(d)}}} : TRUE]

\* TaprootSpendInfo::control_block: the control block of a script, with the
\* shortest of its Merkle branches; None for a script that is not in the map.
control_block(info, leaf_script) ==
    LET branches == {e.branch_len : e \in {x \in info.script_map : x.script = leaf_script}}
    IN IF branches = {} THEN None
       ELSE Some([internal_key |-> info.internal_key,
                  branch_len |-> CHOOSE b \in branches : \A c \in branches : b <= c])

\* Arc::new(data): the n-th Arc made; Arc::clone gives the same Arc.
Arc_new(n, data) == [arc |-> n, data |-> data]

\* A slip: the slot is left empty.
stored_nothing(spend_info_arc) == None

\* *self.spend_info.lock() = Some(Arc::clone(&spend_info))
stored(spend_info_arc) == Some(spend_info_arc)

\* A slip: the slot is read as empty whatever it holds.
cached_never(slot) == None

\* if let Some(ref spend_info) = *read_lock: what the read of the slot finds.
cached(slot) == slot

\* Tr::spend_info by one caller alone: the cached Arc, or a new Arc of the
\* derived value, which is stored.  Returns the value, the descriptor with
\* its cache and the number of Arcs made.
spend_info(d, n) ==
    IF cached(d.spend_info) # None
    THEN [info |-> cached(d.spend_info).val.data, desc |-> d, arcs |-> n]
    ELSE LET spend_info_arc == Arc_new(n + 1, derive_spend_info(d))
         IN [info |-> spend_info_arc.data,
             desc |-> [d EXCEPT !.spend_info = stored(spend_info_arc)],
             arcs |-> n + 1]

(* Tr::spend_info by several threads, statement by statement.  The Mutex  *)
(* is held from lock() to the end of the guard: to the return or the drop *)
(* for the first lock(), for the one statement of the store for the       *)
(* second.                                                                *)

\* The instance a name stands for.
inst(i) == IF i = "copy" THEN copy ELSE desc

\* The slot of instance i becomes v; the other instance is left alone.
SetSlot(i, v) ==
    /\ desc' = IF i = "desc" THEN [desc EXCEPT !.spend_info = v] ELSE desc
    /\ copy' = IF i = "copy" THEN [copy EXCEPT !.spend_info = v] ELSE copy

\* A slip: the guard is kept over the derivation.
keep_read_lock(l, i) == l

\* drop(read_lock)
drop_read_lock(l, i) == [l EXCEPT ![i] = NoThread]

\* The unwinding of a panic in thread t: a Mutex whose guard the thread
\* holds is poisoned.
unwind(l, t) == [i \in Instances |-> IF l[i] = t THEN Poisoned ELSE l[i]]

\* let read_lock = self.spend_info.lock().expect("Lock poisoned"): a thread
\* that waits at the lock(), or that enters spend_info on an instance just
\* now, takes the Mutex, or panics on a poisoned one.
LockReadOn(t, i) ==
    /\ inst(i) # NoDesc
    /\ \/ th[t].pc \in {"idle", "returned", "panicked"} /\ ncalls < MaxCalls
       \/ th[t].pc = "calling" /\ th[t].on = i
    /\ lock[i] \in {NoThread, Poisoned}
    /\ IF lock[i] = Poisoned
       THEN /\ th' = [th EXCEPT ![t] = [pc |-> "panicked", on |-> i,
                                        mine |-> None, ret |-> None]]
            /\ UNCHANGED lock
       ELSE /\ th' = [th EXCEPT ![t] = [pc |-> "read", on |-> i,
                                        mine |-> None, ret |-> None]]
            /\ lock' = [lock EXCEPT ![i] = t]
    /\ ncalls' = IF th[t].pc = "calling" THEN ncalls ELSE ncalls + 1
    /\ UNCHANGED <<spine, tree, desc, res, it_pc, it_stack, it_out, oracle, arcs, copy>>

\* A thread calls spend_info on one of the instances.
LockRead(t) == \E i \in Instances : LockReadOn(t, i)

\* if let Some(ref spend_info) = *read_lock { return Arc::clone(spend_info) }
ReadHit(t) ==
    /\ th[t].pc = "read"
    /\ lock[th[t].on] = t
    /\ cached(inst(th[t].on).spend_info) # None
    /\ th' = [th EXCEPT ![t].pc = "returned",
                        ![t].ret = cached(inst(th[t].on).spend_info)]
    /\ lock' = [lock EXCEPT ![th[t].on] = NoThread]
    /\ UNCHANGED <<spine, tree, desc, res, it_pc, it_stack, it_out, oracle, arcs, ncalls, copy>>

\* drop(read_lock), the slot being empty.
ReadMiss(t) ==
    /\ th[t].pc = "read"
    /\ lock[th[t].on] = t
    /\ cached(inst(th[t].on).spend_info) = None
    /\ th' = [th EXCEPT ![t].pc = "compute"]
    /\ lock' = drop_read_lock(lock, th[t].on)
    /\ UNCHANGED <<spine, tree, desc, res, it_pc, it_stack, it_out, oracle, arcs, ncalls, copy>>

\* The derivation of data, and let spend_info = Arc::new(data).
Compute(t) ==
    /\ th[t].pc = "compute"
    /\ arcs' = arcs + 1
    /\ th' = [th EXCEPT ![t].pc = "store",
                        ![t].mine = Some(Arc_new(arcs + 1,
                                                 derive_spend_info(inst(th[t].on))))]
    /\ UNCHANGED <<spine, tree, desc, res, it_pc, it_stack, it_out, oracle, lock, ncalls, copy>>

\* The derivation panics (an expect or the unreachable! of the builder, or
\* the to_x_only_pubkey of the key type): the call unwinds.
ComputePanics(t) ==
    /\ th[t].pc = "compute"
    /\ th' = [th EXCEPT ![t].pc = "panicked"]
    /\ lock' = unwind(lock, t)
    /\ UNCHANGED <<spine, tree, desc, res, it_pc, it_stack, it_out, oracle, arcs, ncalls, copy>>

\* The store under the Mutex, whatever the slot holds, and the return of
\* the caller's own Arc; lock() panics on a poisoned Mutex.
Store(t) ==
    /\ th[t].pc = "store"
    /\ lock[th[t].on] \in {NoThread, Poisoned}
    /\ IF lock[th[t].on] = Poisoned
       THEN /\ th' = [th EXCEPT ![t].pc = "panicked"]
            /\ UNCHANGED <<desc, copy>>
       ELSE /\ SetSlot(th[t].on, stored(th[t].mine.val))
            /\ th' = [th EXCEPT ![t].pc = "returned", ![t].ret = th[t].mine]
    /\ UNCHANGED <<spine, tree, res, it_pc, it_stack, it_out, oracle, lock, arcs, ncalls>>

\* The descriptors shared by the threads: a tree of up to MaxLeaves leaves,
\* or none, under the key "k1".
InitCache ==
    /\ spine = "free"
    /\ tree \in TreesUpTo(MaxLeaves, {msA}) \cup {NoTree}
    /\ desc = Tr_new("k1", tree).val
    /\ res = NoRes
    /\ it_pc = "idle"
    /\ it_stack = <<>>
    /\ it_out = <<>>
    /\ oracle = NoOracle
    /\ NoThreads

NextCache ==
    \E t \in Threads :
        \/ LockRead(t)
        \/ ReadHit(t)
        \/ ReadMiss(t)
        \/ Compute(t)
        \/ ComputePanics(t)
        \/ Store(t)

SpecCache == InitCache /\ [][NextCache]_vars

(* The callers under a fair scheduler.  The derivation of a constructed    *)
(* descriptor returns: its expect and unreachable! do not fire.  A caller  *)
(* may wait at the first lock(); a thread that can take a step takes one.  *)

\* A thread calls spend_info on the shared instance and comes to the first
\* lock(), where it waits for the Mutex.
Call(t) ==
    /\ th[t].pc \in {"idle", "returned", "panicked"}
    /\ ncalls < MaxCalls
    /\ th' = [th EXCEPT ![t] = [pc |-> "calling", on |-> "desc",
                                mine |-> None, ret |-> None]]
    /\ ncalls' = ncalls + 1
    /\ UNCHANGED <<spine, tree, desc, res, it_pc, it_stack, it_out, oracle, lock, arcs, copy>>

\* The steps of a thread inside spend_info, and its entering it.
Proceed(t) ==
    \/ LockRead(t)
    \/ ReadHit(t)
    \/ ReadMiss(t)
    \/ Compute(t)
    \/ Store(t)

NextFair == \E t \in Threads : Call(t) \/ Proceed(t)

\* The descriptor the callers share: without a tree, or with a tree of one
\* or two leaves.
InitFair ==
    /\ spine = "free"
    /\ tree \in {NoTree, Leaf(msA), combine(Leaf(msA), Leaf(msA))}
    /\ desc = Tr_new("k1", tree).val
    /\ res = NoRes
    /\ it_pc = "idle"
    /\ it_stack = <<>>
    /\ it_out = <<>>
    /\ oracle = NoOracle
    /\ NoThreads

SpecFair ==
    /\ InitFair
    /\ [][NextFair]_vars
    /\ \A t \in Threads : WF_vars(Proceed(t))

\* A slip: the clone starts with an empty slot.
Tr_clone_empty(d) == [d EXCEPT !.spend_info = None]

\* impl Clone for Tr: the key and the tree cloned, and a new Mutex around
\* the content of the slot (the Arc cloned, if there is one).
Tr_clone(d) ==
    [tag |-> "Tr", internal_key |-> d.internal_key, tree |-> d.tree,
     spend_info |-> d.spend_info]

\* A slip: take() for as_ref(), the Arc is moved out of the original's slot.
slot_after_clone_taken(slot) == None

\* as_ref().map(Arc::clone): the slot of the original keeps what it holds.
slot_after_clone(slot) == slot

\* Tr::clone on the descriptor: self.spend_info.lock().expect("Lock
\* poisoned") is held for the one expression that reads the slot.
Clone ==
    /\ desc # NoDesc
    /\ copy = NoDesc
    /\ lock["desc"] \in {NoThread, Poisoned}
    /\ IF lock["desc"] = Poisoned
       THEN /\ res' = [op |-> "clone", result |-> Panic("Lock poisoned")]
            /\ UNCHANGED <<desc, copy>>
       ELSE /\ copy' = Tr_clone(desc)
            /\ desc' = [desc EXCEPT !.spend_info = slot_after_clone(desc.spend_info)]
            /\ res' = [op |-> "clone", result |-> Ok(Tr_clone(desc))]
    /\ UNCHANGED <<spine, tree, it_pc, it_stack, it_out, oracle, th, lock, arcs, ncalls>>

NextClone ==
    \/ NextCache
    \/ Clone

SpecClone == InitCache /\ [][NextClone]_vars

----------------------------------------------------------------------------
(* Satisfactions, placeholders and the provider.                           *)

Stack(items) == [kind |-> "Stack", items |-> items]
Unavailable == [kind |-> "Unavailable"]

SchnorrSigPk(pk, sig_type, size) ==
    [ph |-> "SchnorrSigPk", pk |-> pk, sig_type |-> sig_type, size |-> size]
TapScript(script) == [ph |-> "TapScript", script |-> script]
TapControlBlock(cb) == [ph |-> "TapControlBlock", cb |-> cb]

\* The leaves of the descriptors handed to the planner: two scripts of the
\* same size and one with a timelock.
msA2 == [frag |-> "pk", keys |-> <<"k2">>]
msT == [frag |-> "and_v(v:pk,after)", keys |-> <<"k2">>]
PlanScripts == {msA, msA2, msT}

\* The script 1, which an empty stack satisfies, and the script 0, which
\* nothing satisfies.
ms1 == [frag |-> "1", keys |-> <<>>]
ms0 == [frag |-> "0", keys |-> <<>>]

\* The providers: whether there is a key-spend signature for the internal
\* key, and the leaves each builder of the script component has a template
\* for (a non-malleable satisfaction is also a satisfaction).
Oracles ==
    {o \in [key_sig : {None, Some(64)},
            leaf_sig : {64},
            nonmall : SUBSET PlanScripts,
            mall : SUBSET PlanScripts] : o.nonmall \subseteq o.mall}

\* AssetProvider::provider_lookup_tap_key_spend_sig
provider_lookup_tap_key_spend_sig(provider, key) == provider.key_sig

\* AssetProvider::provider_lookup_tap_leaf_script_sig: the size of the
\* signature for a key of a leaf.
provider_lookup_tap_leaf_script_sig(provider) == provider.leaf_sig

\* The template of the script 1: nothing on the stack.
TrueTemplate ==
    [stack |-> Stack(<<>>), has_sig |-> FALSE,
     relative_timelock |-> None, absolute_timelock |-> None]

\* The template of a leaf the provider can sign for, with a signature of the
\* given size.
Template(ms, size) ==
    [stack |-> Stack(<< SchnorrSigPk(ms.keys[1], [tag |-> "ScriptSpend"], size) >>),
     has_sig |-> TRUE,
     relative_timelock |-> None,
     absolute_timelock |-> IF ms = msT THEN Some(10) ELSE None]

NoTemplate ==
    [stack |-> Unavailable, has_sig |-> FALSE,
     relative_timelock |-> None, absolute_timelock |-> None]

\* Miniscript::build_template: the non-malleable builder.
build_template(ms, provider) ==
    IF ms = ms1 THEN TrueTemplate
    ELSE IF ms \in provider.nonmall
         THEN Template(ms, provider_lookup_tap_leaf_script_sig(provider))
         ELSE NoTemplate

\* Miniscript::build_template_mall: the malleable builder.
build_template_mall(ms, provider) ==
    IF ms = ms1 THEN TrueTemplate
    ELSE IF ms \in provider.mall
         THEN Template(ms, provider_lookup_tap_leaf_script_sig(provider))
         ELSE NoTemplate

\* util::varint_len
varint_len(n) == IF n < 253 THEN 1 ELSE IF n <= 65535 THEN 3 ELSE 5

\* ControlBlock::size: the leaf version and parity, the internal key and
\* the hashes of the Merkle branch.
ControlBlock_size(cb) ==
    TAPROOT_CONTROL_BASE_SIZE + TAPROOT_CONTROL_NODE_SIZE * cb.branch_len

\* The bytes of the item a placeholder stands for.
ItemBytes(item) ==
    CASE item.ph = "SchnorrSigPk" -> item.size
      [] item.ph = "TapScript" -> item.script.len
      [] item.ph = "TapControlBlock" -> ControlBlock_size(item.cb)

RECURSIVE SumItems(_, _)
SumItems(wit, i) ==
    IF i > Len(wit) THEN 0
    ELSE varint_len(ItemBytes(wit[i])) + ItemBytes(wit[i]) + SumItems(wit, i + 1)

\* util::witness_size: the item count's prefix, and each item with its
\* length prefix.
witness_size(wit) == varint_len(Len(wit)) + SumItems(wit, 1)

----------------------------------------------------------------------------
(* best_tap_spend                                                          *)

\* The template of a leaf, as best_tap_spend asks for it: build_template if
\* allow_mall, build_template_mall otherwise.
template_for(ms, provider, allow_mall) ==
    IF allow_mall
    THEN [builder |-> "build_template", sat |-> build_template(ms, provider)]
    ELSE [builder |-> "build_template_mall", sat |-> build_template_mall(ms, provider)]

\* A slip in the order of the two pushes: the control block before the script.
with_leaf_items_swapped(wit, leaf_script, cb) ==
    wit \o << TapControlBlock(cb), TapScript(leaf_script) >>

\* wit.push(TapScript(script)); wit.push(TapControlBlock(control_block))
with_leaf_items(wit, leaf_script, cb) ==
    wit \o << TapScript(leaf_script), TapControlBlock(cb) >>

\* A slip in the comparison: a candidate of the same size is skipped too.
skips_candidate_on_tie(min_wit_len, wit_size) ==
    min_wit_len # None /\ wit_size >= min_wit_len.val

\* min_wit_len.is_some() && Some(wit_size) > min_wit_len: the candidate is
\* skipped; otherwise it replaces the current best.
skips_candidate(min_wit_len, wit_size) ==
    min_wit_len # None /\ wit_size > min_wit_len.val

\* The loop of best_tap_spend over the leaves items[i..]; calls is the log of
\* the builders asked, one entry per leaf, with the control block looked up
\* for the leaf if its builder gave a stack.
RECURSIVE script_loop(_, _, _, _, _, _, _)
script_loop(items, i, info, provider, allow_mall, best, calls) ==
    IF i > Len(items) THEN [sat |-> best.sat, calls |-> calls, panicked |-> FALSE]
    ELSE LET ms == items[i][2]
             t == template_for(ms, provider, allow_mall)
             called == Append(calls, [ms |-> ms, builder |-> t.builder,
                                      cb |-> IF t.sat.stack.kind = "Stack"
                                             THEN control_block(info, encode(ms))
                                             ELSE None])
         IN IF t.sat.stack.kind # "Stack"
            THEN script_loop(items, i + 1, info, provider, allow_mall, best, called)
            ELSE LET leaf_script == encode(ms)
                     cb == control_block(info, leaf_script)
                 IN IF cb = None
                    \* expect("Control block must exist in script map ...")
                    THEN [sat |-> best.sat, calls |-> called, panicked |-> TRUE]
                    ELSE LET wit == with_leaf_items(t.sat.stack.items, leaf_script, cb.val)
                             wit_size == witness_size(wit)
                         IN IF skips_candidate(best.len, wit_size)
                            THEN script_loop(items, i + 1, info, provider, allow_mall,
                                             best, called)
                            ELSE script_loop(items, i + 1, info, provider, allow_mall,
                                             [sat |-> [t.sat EXCEPT !.stack = Stack(wit)],
                                              len |-> Some(wit_size)],
                                             called)

\* best_tap_spend, the script path: the smallest witness over the leaves.
script_spend(d, info, provider, allow_mall) ==
    script_loop(iter_scripts(d), 1, info, provider, allow_mall,
                [sat |-> NoTemplate, len |-> None], <<>>)

\* best_tap_spend, the key path.
key_spend(d, info, size) ==
    [sat |-> [stack |-> Stack(<< SchnorrSigPk(d.internal_key,
                                              [tag |-> "KeySpend",
                                               merkle_root |-> info.merkle_root],
                                              size) >>),
              has_sig |-> TRUE,
              absolute_timelock |-> None,
              relative_timelock |-> None],
     calls |-> <<>>,
     panicked |-> FALSE]

\* A planner that takes the key path only when no leaf can be satisfied.
best_tap_spend_leaf_first(d, info, provider, allow_mall) ==
    LET s == script_spend(d, info, provider, allow_mall)
        k == provider_lookup_tap_key_spend_sig(provider, d.internal_key)
    IN IF s.sat.stack.kind = "Stack" \/ k = None THEN s ELSE key_spend(d, info, k.val)

\* best_tap_spend, given the spend info of the descriptor.
best_tap_spend(d, info, provider, allow_mall) ==
    LET k == provider_lookup_tap_key_spend_sig(provider, d.internal_key)
    IN IF k # None THEN key_spend(d, info, k.val)
       ELSE script_spend(d, info, provider, allow_mall)

\* Satisfaction::try_completing: every placeholder replaced by its bytes.
try_completing(sat) ==
    IF sat.stack.kind = "Stack"
    THEN [sat EXCEPT !.stack = Stack([i \in 1..Len(sat.stack.items) |->
                                         [bytes_of |-> sat.stack.items[i]]])]
    ELSE sat

\* A slip: an empty witness instead of the error.
witness_or_empty(satisfaction) ==
    IF satisfaction.stack.kind = "Stack"
    THEN Ok([witness |-> satisfaction.stack.items, script_sig |-> <<>>])
    ELSE Ok([witness |-> <<>>, script_sig |-> <<>>])

\* The end of get_satisfaction and get_satisfaction_mall: the stack with an
\* empty scriptSig, or CouldNotSatisfy.
witness_or_error(satisfaction) ==
    IF satisfaction.stack.kind = "Stack"
    THEN Ok([witness |-> satisfaction.stack.items, script_sig |-> <<>>])
    ELSE Err("CouldNotSatisfy")

\* The plan of an entry point as a result: the call of best_tap_spend ended
\* in a panic, or returned the plan.
planned(best, value) ==
    [allow_mall |-> best.allow_mall, panicked |-> best.panicked,
     plan |-> best.sat, calls |-> best.calls,
     result |-> IF best.panicked THEN Panic("expect") ELSE value]

\* best_tap_spend on the descriptor of the state: spend_info (the cache is
\* filled by the first call), then the plan.
tap_spend(allow_mall) ==
    LET si == spend_info(desc, arcs)
        best == best_tap_spend(si.desc, si.info, oracle, allow_mall)
    IN [desc |-> si.desc, arcs |-> si.arcs, allow_mall |-> allow_mall,
        sat |-> best.sat, calls |-> best.calls, panicked |-> best.panicked]

\* The Mutex of the descriptor is free: an operation that calls spend_info
\* in one step takes it and gives it back.
Unlocked == lock["desc"] = NoThread

\* Tr::get_satisfaction
GetSatisfaction ==
    /\ Idle
    /\ Unlocked
    /\ oracle # NoOracle
    /\ LET best == tap_spend(FALSE)
       IN /\ desc' = best.desc
          /\ arcs' = best.arcs
          /\ res' = [op |-> "get_satisfaction"] @@
                    planned(best, witness_or_error(try_completing(best.sat)))
    /\ UNCHANGED <<spine, tree, it_pc, it_stack, it_out, oracle, th, lock, ncalls, copy>>

\* Tr::get_satisfaction_mall
GetSatisfactionMall ==
    /\ Idle
    /\ Unlocked
    /\ oracle # NoOracle
    /\ LET best == tap_spend(TRUE)
       IN /\ desc' = best.desc
          /\ arcs' = best.arcs
          /\ res' = [op |-> "get_satisfaction_mall"] @@
                    planned(best, witness_or_error(try_completing(best.sat)))
    /\ UNCHANGED <<spine, tree, it_pc, it_stack, it_out, oracle, th, lock, ncalls, copy>>

\* Tr::plan_satisfaction
PlanSatisfaction ==
    /\ Idle
    /\ Unlocked
    /\ oracle # NoOracle
    /\ LET best == tap_spend(FALSE)
       IN /\ desc' = best.desc
          /\ arcs' = best.arcs
          /\ res' = [op |-> "plan_satisfaction"] @@ planned(best, Ok(best.sat))
    /\ UNCHANGED <<spine, tree, it_pc, it_stack, it_out, oracle, th, lock, ncalls, copy>>

\* Tr::plan_satisfaction_mall
PlanSatisfactionMall ==
    /\ Idle
    /\ Unlocked
    /\ oracle # NoOracle
    /\ LET best == tap_spend(TRUE)
       IN /\ desc' = best.desc
          /\ arcs' = best.arcs
          /\ res' = [op |-> "plan_satisfaction_mall"] @@ planned(best, Ok(best.sat))
    /\ UNCHANGED <<spine, tree, it_pc, it_stack, it_out, oracle, th, lock, ncalls, copy>>

\* The descriptors handed to the planner: every tree of up to MaxLeaves
\* leaves, or none, under the key "k1", with any of the providers.
InitPlan ==
    /\ spine = "free"
    /\ tree \in TreesUpTo(MaxLeaves, PlanScripts) \cup {NoTree}
    /\ desc = Tr_new("k1", tree).val
    /\ res = NoRes
    /\ it_pc = "idle"
    /\ it_stack = <<>>
    /\ it_out = <<>>
    /\ oracle \in Oracles
    /\ NoThreads

NextPlan ==
    \/ GetSatisfaction
    \/ GetSatisfactionMall
    \/ PlanSatisfaction
    \/ PlanSatisfactionMall

SpecPlan == InitPlan /\ [][NextPlan]_vars

----------------------------------------------------------------------------
(* max_weight_to_satisfy                                                   *)

\* Miniscript::max_satisfaction_witness_elements: the most stack elements of
\* a satisfaction, the script counted as one of them; nothing for a script
\* that cannot be satisfied.
MaxSatElems(ms) ==
    CASE ms.frag = "0" -> None
      [] ms.frag = "1" -> Some(1)
      [] ms.frag = "multi_a" -> Some(Len(ms.keys) + 1)
      [] OTHER -> Some(2)

\* Miniscript::max_satisfaction_size: the most bytes of a satisfaction, each
\* element with its length prefix and each signature taken as 1 + 65 bytes.
MaxSatSize(ms) ==
    CASE ms.frag = "0" -> None
      [] ms.frag = "1" -> Some(0)
      [] ms.frag = "multi_a" -> Some(Len(ms.keys) * 66)
      [] OTHER -> Some(66)

\* A slip: the signature without its sighash byte.
item_sig_size_64 == 1 + 64

\* let item_sig_size = 1 + 65
item_sig_size == 1 + 65

\* The key path of max_weight_to_satisfy.
key_path_weight ==
    LET stack_varint_diff == varint_len(1) - varint_len(0)
    IN stack_varint_diff + item_sig_size

\* A slip: the control block taken at depth 0 for every leaf.
leaf_weight_flat(depth, ms) ==
    LET script_size == ScriptSize(ms)
        max_sat_elems == MaxSatElems(ms)
        max_sat_size == MaxSatSize(ms)
        control_block_size == control_block_len(0)
    IN IF max_sat_elems = None \/ max_sat_size = None THEN None
       ELSE LET stack_varint_diff == varint_len(max_sat_elems.val + 1) - varint_len(0)
            IN Some(stack_varint_diff + max_sat_size.val
                    + varint_len(script_size) + script_size
                    + varint_len(control_block_size) + control_block_size)

\* The closure of the filter_map in max_weight_to_satisfy: the estimate of
\* one leaf, or None (the ? on either maximum).
leaf_weight(depth, ms) ==
    LET script_size == ScriptSize(ms)
        max_sat_elems == MaxSatElems(ms)
        max_sat_size == MaxSatSize(ms)
        control_block_size == control_block_len(depth)
    IN IF max_sat_elems = None \/ max_sat_size = None THEN None
       ELSE LET stack_varint_diff == varint_len(max_sat_elems.val + 1) - varint_len(0)
            IN Some(stack_varint_diff + max_sat_size.val
                    + varint_len(script_size) + script_size
                    + varint_len(control_block_size) + control_block_size)

\* The estimates of the leaves that have one.
leaf_weights(d) ==
    LET items == iter_scripts(d)
    IN {leaf_weight(items[i][1], items[i][2]).val :
           i \in {j \in 1..Len(items) : leaf_weight(items[j][1], items[j][2]) # None}}

\* A slip: the smallest of the estimates of the leaves.
max_weight_to_satisfy_min(d) ==
    IF d.tree = NoTree THEN Ok(key_path_weight)
    ELSE LET wus == leaf_weights(d)
         IN IF wus = {} THEN Err("ImpossibleSatisfaction")
            ELSE Ok(CHOOSE wu \in wus : \A other_wu \in wus : wu <= other_wu)

\* Tr::max_weight_to_satisfy
max_weight_to_satisfy(d) ==
    IF d.tree = NoTree THEN Ok(key_path_weight)
    ELSE LET wus == leaf_weights(d)
         IN IF wus = {} THEN Err("ImpossibleSatisfaction")
            ELSE Ok(CHOOSE wu \in wus : \A other_wu \in wus : other_wu <= wu)

MaxWeightToSatisfy ==
    /\ Idle
    /\ res' = [op |-> "max_weight_to_satisfy", result |-> max_weight_to_satisfy(desc)]
    /\ UNCHANGED <<spine, tree, desc, it_pc, it_stack, it_out, oracle, th, lock, arcs, ncalls, copy>>

\* The providers: a key-spend signature of 64 or 65 bytes or none, leaf
\* signatures of 64 or 65 bytes, and the leaves they can sign for.
WeightOracles ==
    {o \in [key_sig : {None, Some(64), Some(65)},
            leaf_sig : {64, 65},
            nonmall : SUBSET {msA, msT},
            mall : SUBSET {msA, msT}] : o.nonmall = o.mall}

\* The descriptors: a tree of up to MaxWeightLeaves leaves, or none, under
\* either key, with any of the providers.
InitWeight ==
    /\ spine = "free"
    /\ tree \in TreesUpTo(MaxWeightLeaves, {msA, msT, ms1, ms0}) \cup {NoTree}
    /\ \E k \in {"k1", "k2"} : desc = Tr_new(k, tree).val
    /\ res = NoRes
    /\ it_pc = "idle"
    /\ it_stack = <<>>
    /\ it_out = <<>>
    /\ oracle \in WeightOracles
    /\ NoThreads

NextWeight ==
    \/ MaxWeightToSatisfy
    \/ NextPlan

SpecWeight == InitWeight /\ [][NextWeight]_vars

----------------------------------------------------------------------------
(* script_pubkey and address, and every operation on one descriptor.       *)

\* TaprootSpendInfo::output_key: the internal key tweaked by the Merkle root.
output_key(info) == [tweaked |-> info.internal_key, by |-> info.merkle_root]

\* Tr::script_pubkey: OP_1 and the output key of the spend info.
ScriptPubkey ==
    /\ Idle
    /\ Unlocked
    /\ LET si == spend_info(desc, arcs)
       IN /\ desc' = si.desc
          /\ arcs' = si.arcs
          /\ res' = [op |-> "script_pubkey",
                     result |-> << "OP_PUSHNUM_1", output_key(si.info) >>]
    /\ UNCHANGED <<spine, tree, it_pc, it_stack, it_out, oracle, th, lock, ncalls, copy>>

\* Tr::address
Address(network) ==
    /\ Idle
    /\ Unlocked
    /\ LET si == spend_info(desc, arcs)
       IN /\ desc' = si.desc
          /\ arcs' = si.arcs
          /\ res' = [op |-> "address",
                     result |-> [p2tr_tweaked |-> output_key(si.info),
                                 network |-> network]]
    /\ UNCHANGED <<spine, tree, it_pc, it_stack, it_out, oracle, th, lock, ncalls, copy>>

\* The descriptors: a tree of up to MaxWeightLeaves leaves pk(k1), or none,
\* under the key "k1"; the threads have two calls of spend_info to make.
InitOps ==
    /\ spine = "free"
    /\ tree \in TreesUpTo(MaxWeightLeaves, {msA}) \cup {NoTree}
    /\ desc = Tr_new("k1", tree).val
    /\ res = NoRes
    /\ it_pc = "idle"
    /\ it_stack = <<>>
    /\ it_out = <<>>
    /\ oracle \in {o \in Oracles : o.nonmall = {msA} /\ o.mall = {msA}}
    /\ th = [t \in Threads |-> NotCalling]
    /\ lock = [i \in Instances |-> NoThread]
    /\ arcs = 0
    /\ ncalls = MaxCalls - 2
    /\ copy = NoDesc

NextOps ==
    \/ NextClone
    \/ ScriptPubkey
    \/ \E network \in {"bitcoin", "testnet"} : Address(network)
    \/ NextPlan
    \/ MaxWeightToSatisfy
    \/ IterScripts
    \/ IterStep
    \/ IterEnd
    \/ ForEachKey([k \in Keys |-> k = "k1"])
    \/ TranslatePk(TSwap)

SpecOps == InitOps /\ [][NextOps]_vars

----------------------------------------------------------------------------
(* Properties of the tree and of the descriptor.                           *)

\* The equation of one node: a Leaf has height 0, a Tree stores
\* 1 + max(height(left), height(right)).
NodeOk(t) ==
    IF t.tag = "Tree"
    THEN t.height = 1 + Max(height(t.left), height(t.right))
    ELSE height(t) = 0

RECURSIVE HeightsOk(_)
HeightsOk(t) ==
    /\ NodeOk(t)
    /\ t.tag = "Tree" => HeightsOk(t.left) /\ HeightsOk(t.right)

\* The descriptor an operation returned, if it returned one.
Returned == IF res.op \in {"new", "parse", "translate"} /\ res.result.ok
            THEN res.result.val ELSE NoDesc

\* C6: Tr::new with a valid internal key succeeds exactly when the tree is
\* absent or of height <= 128 and fails with MaxRecursiveDepthExceeded when it
\* is >= 129; every descriptor that exists (from Tr::new, from the parser or
\* from translate_pk) has a tree of height <= 128.
C6_DepthLimit ==
    /\ (res.op = "new" /\ check_pk(res.key)) =>
          /\ res.result.ok <=> height(res.tree) <= 128
          /\ ~res.result.ok =>
                height(res.tree) >= 129 /\ res.result.err = "MaxRecursiveDepthExceeded"
    /\ desc # NoDesc => height(desc.tree) <= 128
    /\ Returned # NoDesc => height(Returned.tree) <= 128

C6_Witness ==
    /\ res.op = "new" /\ check_pk(res.key)
    /\ height(res.tree) = 129
    /\ ~res.result.ok /\ res.result.err = "MaxRecursiveDepthExceeded"

\* C7: every node of every tree reached by combine, by the parser and by key
\* translation has height 0 if it is a Leaf and 1 + max(height(left),
\* height(right)) if it is a Tree; so has the result of each combine.  (On a
\* spine every subtree is the tree of an earlier state, so the root's
\* equation in every state covers every node.)
C7_Heights ==
    /\ NodeOk(node(tree))
    /\ res.op = "combine" =>
          /\ node(tree).left = res.left /\ node(tree).right = res.right
          /\ height(tree) = 1 + Max(height(res.left), height(res.right))
    /\ spine = "free" =>
          /\ HeightsOk(tree)
          /\ desc # NoDesc /\ desc.tree # NoTree => HeightsOk(desc.tree)
          /\ Returned # NoDesc /\ Returned.tree # NoTree => HeightsOk(Returned.tree)

C7_Witness ==
    /\ res.op = "translate" /\ res.result.ok
    /\ res.result.val.tree.tag = "Tree"
    /\ height(res.result.val.tree.left) = 0
    /\ height(res.result.val.tree.right) = 1
    /\ height(res.result.val.tree) = 2

----------------------------------------------------------------------------
(* Properties of the iterator.                                             *)

\* The leaves of a tree in pre-order, left subtree before right subtree, each
\* with its number of Tree ancestors.
RECURSIVE LeavesDFS(_, _)
LeavesDFS(t, d) ==
    IF t.tag = "Tree"
    THEN LeavesDFS(t.left, d + 1) \o LeavesDFS(t.right, d + 1)
    ELSE << <<d, t.ms>> >>

\* The same for a spine of height h, in closed form.  Spine "L" is
\* combine(combine(... , A), A): the deepest leaf first, then the leaves hung
\* on the right from the bottom up.  Spine "R" is combine(A, combine(A, ...)):
\* the leaves hung on the left from the top down, then the deepest leaf.
SpineLeaves(dir, h) ==
    IF h = 0 THEN << <<0, msA>> >>
    ELSE [i \in 1..(h + 1) |->
            IF dir = "L" THEN (IF i = 1 THEN <<h, msA>> ELSE <<h - (i - 2), msA>>)
            ELSE (IF i <= h THEN <<i, msA>> ELSE <<h, msA>>)]

ExpectedItems ==
    IF it_src = NoTree THEN <<>>
    ELSE IF spine = "free" THEN LeavesDFS(it_src, 0)
    ELSE SpineLeaves(spine, height(it_src))

IsPrefix(a, b) == Len(a) <= Len(b) /\ a = SubSeq(b, 1, Len(a))

IterYieldsPreOrder ==
    /\ it_pc # "panic"
    /\ it_pc = "running" => IsPrefix(it_out, ExpectedItems)
    /\ it_pc = "done" => it_out = ExpectedItems

\* C8 as stated: for every tree the iterator yields each leaf once, in
\* pre-order, with its number of Tree ancestors, and then ends.
C8_EveryTree == IterYieldsPreOrder

\* C8 within the range of the depth counter: the same for every tree of
\* height at most 255 (so for the tree of every descriptor).
C8_IterPreOrder == height(it_src) <= U8Max => IterYieldsPreOrder

C8_Witness ==
    /\ it_pc = "done"
    /\ it_src = combine(combine(Leaf(msA), Leaf(msB)), Leaf(msV))
    /\ it_out = << <<2, msA>>, <<2, msB>>, <<1, msV>> >>

----------------------------------------------------------------------------
(* Properties of the parser.                                               *)

RECURSIVE AllLeavesB(_)
AllLeavesB(t) ==
    IF t.tag = "Tree" THEN AllLeavesB(t.left) /\ AllLeavesB(t.right)
    ELSE t.tag = "Leaf" => BaseType(t.ms) = "B"

ParsedBack ==
    /\ res.result.ok
    /\ res.result.val.internal_key = res.from.internal_key
    /\ res.result.val.tree = res.from.tree

\* C9 as stated: parsing the text Display gives for a descriptor returns a
\* descriptor with the same internal key and the same tree.
C9_EveryDescriptor == res.op = "parse" => ParsedBack

\* C9 for the leaves the parser accepts: the same for every descriptor whose
\* leaves all have the top-level base type B.
C9_RoundTrip == (res.op = "parse" /\ AllLeavesB(res.from.tree)) => ParsedBack

C9_Witness ==
    /\ res.op = "parse"
    /\ res.from.tree = combine(Leaf(msB), combine(Leaf(msA), Leaf(msB)))
    /\ ParsedBack

----------------------------------------------------------------------------
(* Properties of the planner (SpecPlan).                                   *)

PlannerOps ==
    {"get_satisfaction", "get_satisfaction_mall",
     "plan_satisfaction", "plan_satisfaction_mall"}

\* A planner entry point has returned.
Planned == res.op \in PlannerOps /\ ~res.panicked

\* The leaves of the descriptor in DFS order, with their depths.
PlanLeaves == iter_scripts(desc)

\* What the builder the planner called for the i-th leaf yields.
Yielded(i) ==
    IF res.calls[i].builder = "build_template"
    THEN build_template(PlanLeaves[i][2], oracle)
    ELSE build_template_mall(PlanLeaves[i][2], oracle)

\* The leaves that yield a witness-stack template.
Yielding == {i \in 1..Len(res.calls) : Yielded(i).stack.kind = "Stack"}

\* The spend info of the descriptor as far as the planner reads it: every
\* leaf's script with a Merkle branch as long as the leaf is deep.
PlanInfo ==
    CHOOSE info \in
        {[internal_key |-> desc.internal_key,
          script_map |-> {[script |-> encode(leaves[i][2]), branch_len |-> leaves[i][1]] :
                             i \in 1..Len(leaves)}] : leaves \in {PlanLeaves}} : TRUE

\* The plan of the i-th leaf: its template, then its script, then the
\* control block of the script.
LeafPlan(i) ==
    LET ms == PlanLeaves[i][2]
        cb == control_block(PlanInfo, encode(ms)).val
    IN [Yielded(i) EXCEPT !.stack =
           Stack(Yielded(i).stack.items \o << TapScript(encode(ms)), TapControlBlock(cb) >>)]

LeafPlanSize(i) == witness_size(LeafPlan(i).stack.items)

\* The leaves whose plan is of the smallest size.
Smallest ==
    CHOOSE S \in {{i \in DOMAIN size : \A j \in DOMAIN size : size[i] <= size[j]} :
                    size \in {[i \in Yielding |-> LeafPlanSize(i)]}} : TRUE

\* C1: whenever the provider has a key-spend signature for the internal
\* key, the plan is a stack of one item, the key-spend signature placeholder
\* of the internal key, with has_sig and no timelock, whatever the tree and
\* the leaves that can be satisfied.
C1_KeyPathFirst ==
    (Planned /\ oracle.key_sig # None) =>
        /\ res.plan.stack.kind = "Stack"
        /\ Len(res.plan.stack.items) = 1
        /\ res.plan.stack.items[1].ph = "SchnorrSigPk"
        /\ res.plan.stack.items[1].pk = desc.internal_key
        /\ res.plan.stack.items[1].sig_type.tag = "KeySpend"
        /\ res.plan.stack.items[1].size = oracle.key_sig.val
        /\ res.plan.has_sig
        /\ res.plan.absolute_timelock = None
        /\ res.plan.relative_timelock = None
        /\ res.calls = <<>>

\* The key path taken although leaves of the tree can be satisfied.
C1_Witness ==
    /\ Planned /\ oracle.key_sig # None
    /\ desc.tree # NoTree
    /\ \E i \in 1..Len(PlanLeaves) : PlanLeaves[i][2] \in oracle.nonmall
    /\ Len(res.plan.stack.items) = 1

\* C2 as stated: without a key-spend signature, among the leaves whose plans
\* are of the smallest size, the plan returned is that of the first in DFS
\* order.
C2_FirstOfTies ==
    (Planned /\ oracle.key_sig = None /\ Yielding # {}) =>
        res.plan = LeafPlan(CHOOSE i \in Smallest : \A j \in Smallest : i <= j)

\* C2 as amended: without a key-spend signature, among the leaves whose
\* plans are of the smallest size, the plan returned is that of the last in
\* DFS order (a later candidate replaces the current best unless it is
\* strictly larger).
C2_LastOfTies ==
    (Planned /\ oracle.key_sig = None /\ Yielding # {}) =>
        res.plan = LeafPlan(CHOOSE i \in Smallest : \A j \in Smallest : i >= j)

\* Two leaves with different plans of the same, smallest, size.
C2_Witness ==
    /\ Planned /\ oracle.key_sig = None
    /\ \E i, j \in Smallest : i < j /\ LeafPlan(i) # LeafPlan(j)
    /\ res.plan.stack.kind = "Stack"

\* C3: without a key-spend signature and with a leaf that yields a
\* template, the plan is that of a leaf of the tree: the template of the
\* leaf, then the script of the leaf, then its control block; and no leaf
\* that yields a template has a smaller plan.
C3_ScriptPath ==
    (Planned /\ oracle.key_sig = None /\ Yielding # {}) =>
        \E i \in Yielding :
            /\ res.plan.has_sig = Yielded(i).has_sig
            /\ res.plan.absolute_timelock = Yielded(i).absolute_timelock
            /\ res.plan.relative_timelock = Yielded(i).relative_timelock
            /\ res.plan.stack.kind = "Stack"
            /\ LET items == res.plan.stack.items
                   n == Len(items)
               IN /\ n = Len(Yielded(i).stack.items) + 2
                  /\ SubSeq(items, 1, n - 2) = Yielded(i).stack.items
                  /\ items[n - 1] = TapScript(encode(PlanLeaves[i][2]))
                  /\ items[n].ph = "TapControlBlock"
                  /\ Some(items[n].cb) =
                         control_block(PlanInfo, encode(PlanLeaves[i][2]))
            /\ \A j \in Yielding : witness_size(res.plan.stack.items) <= LeafPlanSize(j)

\* A plan chosen among leaves with plans of different sizes.
C3_Witness ==
    /\ Planned /\ oracle.key_sig = None
    /\ \E i, j \in Yielding : LeafPlanSize(i) < LeafPlanSize(j)
    /\ res.plan.stack.kind = "Stack"

\* The builder that the flag of an entry point names.
BuilderOfFlag(allow_mall) ==
    IF allow_mall THEN "build_template_mall" ELSE "build_template"

\* C4: the entry points with allow_mall = false build the template of every
\* leaf with the non-malleable builder, those with allow_mall = true with the
\* malleable builder.
C4_BuilderOfFlag ==
    Planned =>
        /\ res.allow_mall = (res.op \in {"get_satisfaction_mall", "plan_satisfaction_mall"})
        /\ \A i \in 1..Len(res.calls) : res.calls[i].builder = BuilderOfFlag(res.allow_mall)

\* C5: without a key-spend signature and without a leaf that yields a
\* template (a descriptor without a tree included), the plan is Unavailable
\* with has_sig false and no timelock, and get_satisfaction and
\* get_satisfaction_mall return CouldNotSatisfy.
C5_Unavailable ==
    (Planned /\ oracle.key_sig = None /\ Yielding = {}) =>
        /\ res.plan.stack = Unavailable
        /\ ~res.plan.has_sig
        /\ res.plan.absolute_timelock = None
        /\ res.plan.relative_timelock = None
        /\ res.op \in {"get_satisfaction", "get_satisfaction_mall"} =>
               res.result = Err("CouldNotSatisfy")
        /\ res.op \in {"plan_satisfaction", "plan_satisfaction_mall"} =>
               res.result = Ok(res.plan)

\* get_satisfaction on a tree none of whose leaves yields a template.
C5_Witness ==
    /\ Planned /\ oracle.key_sig = None /\ Yielding = {}
    /\ desc.tree # NoTree
    /\ res.op = "get_satisfaction"
    /\ res.result = Err("CouldNotSatisfy")

----------------------------------------------------------------------------
(* Properties of the cache of spend_info (SpecCache).                      *)

\* The threads whose call of spend_info has returned.
ReturnedThreads == {t \in Threads : th[t].pc = "returned"}

\* C10 as stated: once the slot holds a value, no later store replaces it
\* with another computed instance.
C10_FirstStoreKept ==
    [][desc.spend_info # None => desc'.spend_info = desc.spend_info]_vars

\* Every caller that has returned holds a value equal to the one in the
\* slot, and any two callers hold equal values.
ObservedEqualsStored ==
    \A t \in ReturnedThreads :
        /\ desc.spend_info # None
        /\ th[t].ret.val.data = desc.spend_info.val.data
        /\ \A u \in ReturnedThreads : th[u].ret.val.data = th[t].ret.val.data

\* C10 as amended: under any interleaving of concurrent spend_info calls,
\* every caller observes a value equal to the one stored first: once the
\* slot holds a value it is never emptied, and a later store replaces it
\* only with an instance of equal content.
C10_FirstContentKept ==
    /\ []ObservedEqualsStored
    /\ [][desc.spend_info # None =>
             /\ desc'.spend_info # None
             /\ desc'.spend_info.val.data = desc.spend_info.val.data]_vars

\* Two callers raced: one has returned an Arc that is not the one the slot
\* holds now, of the same content.
C10_Witness ==
    \E t \in ReturnedThreads :
        /\ desc.spend_info # None
        /\ th[t].ret.val.arc # desc.spend_info.val.arc
        /\ th[t].ret.val.data = desc.spend_info.val.data
        /\ arcs >= 2

\* C11 as stated: over all calls of spend_info on the instance, sequential
\* or concurrent, the derivation runs one time.
C11_DerivedOnce == arcs <= 1

\* Every thread completes the derivation at most once: after its store the
\* slot is populated.
DerivedOncePerThread == arcs <= NThreads

\* A call that finds the slot populated returns the cached Arc and derives
\* nothing.
HitReturnsCached ==
    \A t \in Threads :
        (th[t].pc = "read" /\ desc.spend_info # None /\ th'[t] # th[t]) =>
            /\ th'[t].pc = "returned"
            /\ th'[t].ret = desc.spend_info
            /\ arcs' = arcs

\* The slot never goes from populated back to empty.
NeverEmptied == desc.spend_info # None => desc'.spend_info # None

\* C11 as amended: the derivation runs once for every call that finds the
\* slot empty, so once when the calls follow each other and at most once per
\* thread when they overlap; a call that finds the slot populated returns
\* the cached value without recomputing; the slot never goes from populated
\* back to empty.
C11_DerivedPerMiss ==
    /\ []DerivedOncePerThread
    /\ [][HitReturnsCached /\ NeverEmptied]_vars

\* Two overlapping calls have both derived, and a later call has returned
\* the cached value without deriving.
C11_Witness ==
    /\ arcs = 2
    /\ \E t \in Threads :
          /\ th[t].pc = "returned"
          /\ th[t].mine = None
          /\ th[t].ret = desc.spend_info

----------------------------------------------------------------------------
(* C12: a derivation that panics                                           *)

\* No Mutex of an instance is poisoned.
NoPoison == \A i \in Instances : lock[i] # Poisoned

\* A call ends in a panic only out of the derivation, and that step leaves
\* the slots of both instances and their Mutexes as they were.
PanicLeavesCache ==
    \A t \in Threads :
        (th'[t].pc = "panicked" /\ th'[t] # th[t]) =>
            /\ th[t].pc = "compute"
            /\ desc' = desc
            /\ copy' = copy
            /\ lock' = lock
            /\ lock[th[t].on] # t

\* Tr::clone never panics on the lock.
CloneNotPoisoned == (res # NoRes /\ res.op = "clone") => res.result.ok

\* C12: a panic of the derivation in one caller leaves the cache as it was
\* (empty, unless another caller filled it) and no Mutex poisoned, so that
\* every later spend_info call on the instance or on a clone of it, and
\* clone itself, takes the lock without panicking and reads or derives.
C12_PanicKeepsCacheUsable ==
    /\ [](NoPoison /\ CloneNotPoisoned)
    /\ [][PanicLeavesCache]_vars

\* One thread alone made two calls and derived once, in the second, on the
\* clone: its first call panicked in the derivation, the second took the
\* lock, found the slot empty, derived again and returned.
C12_Witness ==
    /\ th[2] = NotCalling
    /\ ncalls = 2
    /\ arcs = 1
    /\ copy # NoDesc
    /\ th[1].pc = "returned"
    /\ th[1].on = "copy"
    /\ th[1].mine # None
    /\ copy.spend_info = th[1].mine

----------------------------------------------------------------------------
(* C13: the clone and its original                                         *)

\* The step that makes the clone gives it the content of the original's
\* slot (the same Arc, or nothing) and leaves the original alone.
CloneCopiesSlot ==
    (copy = NoDesc /\ copy' # NoDesc) =>
        /\ copy'.spend_info = desc.spend_info
        /\ copy'.internal_key = desc.internal_key
        /\ copy'.tree = desc.tree
        /\ desc' = desc

\* Once the clone is there, a step that changes the slot of one instance
\* leaves the other instance as it was.
SlotsIndependent ==
    copy # NoDesc =>
        /\ desc'.spend_info # desc.spend_info => copy' = copy
        /\ copy'.spend_info # copy.spend_info => desc' = desc

\* The other instance.
other(i) == IF i = "desc" THEN "copy" ELSE "desc"

\* A thread that may start a call can take the free Mutex of an instance
\* while another thread holds the Mutex of the other instance.
HolderDoesNotBlock ==
    \A t \in Threads : \A i \in Instances :
        ( /\ inst(i) # NoDesc
          /\ th[t].pc \in {"idle", "returned", "panicked"}
          /\ ncalls < MaxCalls
          /\ lock[i] = NoThread
          /\ lock[other(i)] \in Threads ) => ENABLED LockReadOn(t, i)

\* C13: the clone starts with the content of the original's slot, the two
\* slots change independently afterwards, and a thread that holds the lock
\* of one instance does not block a caller on the other.
C13_CloneIndependent ==
    /\ [][CloneCopiesSlot /\ SlotsIndependent]_vars
    /\ []HolderDoesNotBlock

\* The clone was made of a populated original and shares its Arc, and two
\* threads hold the two Mutexes at the same time.
C13_Witness ==
    /\ copy # NoDesc
    /\ copy.spend_info # None
    /\ copy.spend_info = desc.spend_info
    /\ lock["desc"] \in Threads
    /\ lock["copy"] \in Threads
    /\ lock["desc"] # lock["copy"]

----------------------------------------------------------------------------
(* Properties of the weight estimate (SpecWeight).                         *)

\* The witness stack of the plan an entry point returned.
PlannedWitness == res.plan.stack.items

ScriptPathWithinEstimate ==
    (Planned /\ res.plan.stack.kind = "Stack" /\ oracle.key_sig = None) =>
        /\ max_weight_to_satisfy(desc).ok
        /\ witness_size(PlannedWitness) <= max_weight_to_satisfy(desc).val + varint_len(0)

\* The descriptor without its tree.
KeyOnly(d) == [d EXCEPT !.tree = NoTree]

\* A witness of the key path is within the estimate of the descriptor
\* without its tree and that byte.
KeyPathWithinKeyEstimate ==
    (Planned /\ res.plan.stack.kind = "Stack" /\ oracle.key_sig # None) =>
        witness_size(PlannedWitness) <= max_weight_to_satisfy(KeyOnly(desc)).val + varint_len(0)

KeyPathBound == (varint_len(1) - varint_len(0)) + (varint_len(65) + 65)

\* C15: without a tree max_weight_to_satisfy does not fail and returns the
\* key-path bound, 66, whatever the internal key and the provider.
C15_KeyPathBound ==
    (res.op = "max_weight_to_satisfy" /\ desc.tree = NoTree) =>
        /\ res.result.ok
        /\ res.result.val = KeyPathBound
        /\ res.result.val = 66

\* The estimate of a descriptor without a tree, under the second key and a
\* provider without a key-spend signature.
C15_Witness ==
    /\ res.op = "max_weight_to_satisfy"
    /\ desc.tree = NoTree
    /\ desc.internal_key = "k2"
    /\ oracle.key_sig = None
    /\ res.result = Ok(66)

\* The leaves of the descriptor, in pre-order with their depths, that have
\* both maxima.
EstimableLeaves ==
    LET leaves == LeavesDFS(desc.tree, 0)
    IN {leaves[i] : i \in {j \in 1..Len(leaves) :
                              /\ MaxSatElems(leaves[j][2]) # None
                              /\ MaxSatSize(leaves[j][2]) # None}}

\* The estimate of a leaf: the difference of the count prefixes (the
\* satisfaction's elements, the script among them, and the control block),
\* the satisfaction, the script and the control block of 33 + 32 * depth
\* bytes, each of the two with its length prefix.
LeafEstimate(leaf) ==
    LET depth == leaf[1]
        ms == leaf[2]
    IN (varint_len(MaxSatElems(ms).val + 1) - varint_len(0))
       + MaxSatSize(ms).val
       + (varint_len(ScriptSize(ms)) + ScriptSize(ms))
       + (varint_len(33 + 32 * depth) + (33 + 32 * depth))

----------------------------------------------------------------------------
(* C17: key translation                                                    *)

\* The keys of the leaves of a tree, leaf after leaf in pre-order.
RECURSIVE KeysDFS(_)
KeysDFS(t) ==
    IF t = NoTree THEN <<>>
    ELSE IF t.tag = "Tree" THEN KeysDFS(t.left) \o KeysDFS(t.right)
    ELSE t.ms.keys

\* The keys translate_pk hands to the translator if none fails: those of the
\* leaves, then the internal key.
KeysToTranslate(d) == Append(KeysDFS(d.tree), d.internal_key)

\* The first of the keys the translator fails on, 0 if there is none.
FirstFailure(keys, T) ==
    LET failing == {i \in 1..Len(keys) : ~T[keys[i]].ok}
    IN IF failing = {} THEN 0 ELSE CHOOSE i \in failing : \A j \in failing : i <= j

\* b is a with every key translated: the same branches with the same
\* heights, the same leaves.
RECURSIVE TranslatedTree(_, _, _)
TranslatedTree(a, b, T) ==
    IF a = NoTree THEN b = NoTree
    ELSE IF a.tag = "Tree"
    THEN /\ b # NoTree
         /\ b.tag = "Tree"
         /\ b.height = a.height
         /\ TranslatedTree(a.left, b.left, T)
         /\ TranslatedTree(a.right, b.right, T)
    ELSE /\ b # NoTree
         /\ b.tag = "Leaf"
         /\ b.ms.frag = a.ms.frag
         /\ b.ms.keys = [i \in 1..Len(a.ms.keys) |-> T[a.ms.keys[i]].val]

\* C17: translate_pk hands the keys of the leaves to the translator in
\* pre-order and the internal key last, and stops at the first failure: no
\* later key is handed over, the error is returned and no descriptor.  When
\* no key fails the result is that of Tr::new on the translated internal key
\* and a tree of the same shape and heights, with an empty cache.
C17_TranslateShortCircuits ==
    res.op = "translate" =>
        LET d == res.from
            T == res.translator
            r == res.result
            keys == KeysToTranslate(d)
            ff == FirstFailure(keys, T)
        IN IF ff # 0
           THEN /\ r.calls = SubSeq(keys, 1, ff)
                /\ ~r.ok
                /\ r.err = T[keys[ff]].err
                /\ "val" \notin DOMAIN r
           ELSE /\ r.calls = keys
                /\ IF check_pk(T[d.internal_key].val) /\ height(d.tree) <= 128
                   THEN /\ r.ok
                        /\ r.val.internal_key = T[d.internal_key].val
                        /\ TranslatedTree(d.tree, r.val.tree, T)
                        /\ height(r.val.tree) = height(d.tree)
                        /\ r.val.spend_info = None
                   ELSE ~r.ok /\ r.err = "OuterError"

\* The translator failed on a key of a leaf with another leaf after it: the
\* keys of the later leaves and the internal key were not handed over.
C17_Witness ==
    /\ res.op = "translate"
    /\ ~res.result.ok
    /\ res.result.err = "Translate"
    /\ res.from.tree # NoTree
    /\ res.from.tree.tag = "Tree"
    /\ Len(res.result.calls) + 1 < Len(KeysToTranslate(res.from))

----------------------------------------------------------------------------
(* C18: for_each_key                                                       *)

\* The first of the keys the predicate is false of, 0 if there is none.
FirstFalse(keys, pred) ==
    LET false_of == {i \in 1..Len(keys) : ~pred[keys[i]]}
    IN IF false_of = {} THEN 0 ELSE CHOOSE i \in false_of : \A j \in false_of : i <= j

\* C18: for_each_key gives true exactly when the predicate is true of every
\* key of every leaf and of the internal key; it asks about the keys of the
\* leaves in pre-order and about the internal key last, and about no key
\* after the first it is false of.
C18_ForEachKey ==
    res.op = "for_each_key" =>
        LET keys == KeysToTranslate(res.from)
            ff == FirstFalse(keys, res.pred)
        IN /\ res.result.ret = (\A i \in 1..Len(keys) : res.pred[keys[i]])
           /\ res.result.calls = IF ff = 0 THEN keys ELSE SubSeq(keys, 1, ff)

\* The predicate was false of a key of a leaf that is not the last: the
\* later leaves and the internal key, of which it is true, were not asked
\* about.
C18_Witness ==
    /\ res.op = "for_each_key"
    /\ ~res.result.ret
    /\ res.pred[res.from.internal_key]
    /\ Len(res.result.calls) + 1 < Len(KeysToTranslate(res.from))

----------------------------------------------------------------------------
(* C19: what the operations leave alone (SpecOps)                          *)

\* The step leaves the internal key and the tree of an instance as they are.
KeyAndTreeKept(d, e) ==
    d # NoDesc => (e.internal_key = d.internal_key /\ e.tree = d.tree)

\* The step changes the slot of the instance only from empty to populated.
SlotOnlyFilled(d, e) ==
    (d # NoDesc /\ e.spend_info # d.spend_info) =>
        (d.spend_info = None /\ e.spend_info # None)

\* The step changes the slot of the instance only to a populated one, and a
\* populated slot only to one of equal content.
SlotFilledOrEqual(d, e) ==
    (d # NoDesc /\ e.spend_info # d.spend_info) =>
        /\ e.spend_info # None
        /\ d.spend_info # None => e.spend_info.val.data = d.spend_info.val.data

\* C19 as stated: no operation on a descriptor changes its internal key or
\* its tree, and the cache slot changes only from empty to populated.
C19_OnlySlotFilled ==
    [][/\ KeyAndTreeKept(desc, desc') /\ SlotOnlyFilled(desc, desc')
       /\ KeyAndTreeKept(copy, copy') /\ SlotOnlyFilled(copy, copy')]_vars

\* C19 as amended: no operation on a descriptor changes its internal key or
\* its tree; the cache slot changes only from empty to populated or, by the
\* store of a call that overlapped another, from populated to populated
\* with an equal value, never back to empty.
C19_OnlySlotFilledOrEqual ==
    [][/\ KeyAndTreeKept(desc, desc') /\ SlotFilledOrEqual(desc, desc')
       /\ KeyAndTreeKept(copy, copy') /\ SlotFilledOrEqual(copy, copy')]_vars

\* The descriptor was cloned and planned for, and its slot holds the first
\* Arc although a thread has stored and returned the second: the slot was
\* populated when the first was stored; key and tree are those of the clone.
C19_Witness ==
    /\ copy # NoDesc
    /\ copy.internal_key = desc.internal_key
    /\ copy.tree = desc.tree
    /\ desc.tree # NoTree
    /\ res.op \in PlannerOps
    /\ desc.spend_info # None
    /\ desc.spend_info.val.arc = 1
    /\ \E t \in Threads :
          /\ th[t].pc = "returned"
          /\ th[t].on = "desc"
          /\ th[t].mine # None
          /\ th[t].mine.val.arc = 2

----------------------------------------------------------------------------
(* C20: the reduction stack of from_tree (SpecParse)                       *)

\* The node of the tree expression of a text "tr(key,expression)".
TapTreeNode(nodes) == ChildrenOf(nodes, 1)[2]

\* The expression under node i is one the parser accepts: every brace node
\* unnamed with two children, every other node a script of base type B.
RECURSIVE Acceptable(_, _)
Acceptable(nodes, i) ==
    IF nodes[i].parens = "Curly"
    THEN /\ nodes[i].name = ""
         /\ nodes[i].n_children = 2
         /\ \A k \in 1..2 : Acceptable(nodes, ChildrenOf(nodes, i)[k])
    ELSE /\ MiniscriptFromTree(nodes, i).ok
         /\ BaseType(MiniscriptFromTree(nodes, i).val) = "B"

\* The tree the expression under node i stands for: the first child of a
\* brace on the left, the second on the right.
RECURSIVE TreeOfExpr(_, _)
TreeOfExpr(nodes, i) ==
    IF nodes[i].parens = "Curly"
    THEN LET l == TreeOfExpr(nodes, ChildrenOf(nodes, i)[1])
             r == TreeOfExpr(nodes, ChildrenOf(nodes, i)[2])
         IN [tag |-> "Tree", left |-> l, right |-> r,
             height |-> 1 + Max(height(l), height(r))]
    ELSE Leaf(MiniscriptFromTree(nodes, i).val)

\* The reduction stack when the traversal of the tree expression ends.
FinalStack(nodes) ==
    tree_loop(nodes, TapTreeNode(nodes), SubtreeEnd(nodes, TapTreeNode(nodes)), <<>>)

\* C20: for every tree expression the parser accepts the reduction stack
\* holds one entry when the traversal ends, the tree of the expression (the
\* earlier child of every brace on the left) tagged with the root node, the
\* parent of the outermost brace; no text makes pop_final's assertion or a
\* parent().unwrap() fail.
C20_StackReducesToOne ==
    res.op = "parse_text" =>
        \A nodes \in {ExprTree(res.text)} :
           /\ ~res.result.ok => res.result.err # "panic"
           /\ (nodes[1].n_children = 2 /\ Acceptable(nodes, TapTreeNode(nodes))) =>
                 \A final \in {FinalStack(nodes)},
                    expected \in {TreeOfExpr(nodes, TapTreeNode(nodes))} :
                     /\ final.ok
                     /\ Len(final.val) = 1
                     /\ final.val[1].parent = 1
                     /\ final.val[1].tree = expected
                     /\ res.result = Tr_new("k1", expected)

\* An accepted expression of three leaves with a brace in a brace, the two
\* children of the outer brace different.
C20_Witness ==
    /\ res.op = "parse_text"
    /\ res.result.ok
    /\ res.result.val.tree # NoTree
    /\ height(res.result.val.tree) = 2
    /\ res.result.val.tree.left # res.result.val.tree.right
    /\ res.result.val.tree.right.tag = "Tree"
    /\ res.result.val.tree.right.left # res.result.val.tree.right.right

----------------------------------------------------------------------------
(* C21: what the tree parser rejects (SpecParse)                           *)

\* The error of the first offending node of the expression under node i, in
\* pre-order (a brace before its children, the first child before the
\* second), "none" if there is none.  The nodes under a script are part of
\* the script.
RECURSIVE Offence(_, _)
Offence(nodes, i) ==
    IF nodes[i].parens = "Curly"
    THEN IF nodes[i].name # "" THEN "Parse: IncorrectName"
         ELSE IF nodes[i].n_children # 2 THEN "Parse: taptree branch"
         ELSE LET first == Offence(nodes, ChildrenOf(nodes, i)[1])
              IN IF first # "none" THEN first
                 ELSE Offence(nodes, ChildrenOf(nodes, i)[2])
    ELSE IF ~MiniscriptFromTree(nodes, i).ok THEN "Parse"
    ELSE IF BaseType(MiniscriptFromTree(nodes, i).val) # "B" THEN "NonTopLevel"
    ELSE "none"

\* The nodes at which a tree expression offends: a brace with a name or
\* without two children, a script not of base type B.
Offending(nodes) ==
    {i \in TapTreeNode(nodes)..Len(nodes) :
        \/ nodes[i].parens = "Curly" /\ (nodes[i].name # "" \/ nodes[i].n_children # 2)
        \/ /\ MiniscriptFromTree(nodes, i).ok
           /\ BaseType(MiniscriptFromTree(nodes, i).val) # "B"}

\* C21: the parser rejects a tree expression with the error of its first
\* offending node in pre-order (the name of a brace before its child count)
\* and returns no descriptor; it accepts an expression without one, the
\* nodes under a script not being looked at as nodes of the tree.
C21_FirstOffenceRejected ==
    (res.op = "parse_text" /\ ExprTree(res.text)[1].n_children = 2) =>
        \A nodes \in {ExprTree(res.text)} :
            \A offence \in {Offence(nodes, TapTreeNode(nodes))} :
                IF offence = "none"
                THEN res.result.ok /\ desc = res.result.val
                ELSE /\ res.result = Err(offence)
                     /\ desc = NoDesc

\* A text with two offences, a script of base type V and after it a brace
\* with a name and not two children: the error is that of the script.
C21_Witness ==
    /\ res.op = "parse_text"
    /\ res.result = Err("NonTopLevel")
    /\ desc = NoDesc
    /\ \E i \in Offending(ExprTree(res.text)) :
          /\ ExprTree(res.text)[i].parens = "Curly"
          /\ ExprTree(res.text)[i].name # ""
          /\ ExprTree(res.text)[i].n_children # 2

----------------------------------------------------------------------------
(* C22: the builder accepts the leaves of a descriptor's tree (Spec)       *)

\* The derivation has not panicked: no add_leaf has failed, and finalize
\* has not.
BuilderAccepts ==
    /\ it_pc # "derive_panic"
    /\ it_pc = "deriving" => res.builder.ok

\* The derived spend info has a control block for every leaf of the tree,
\* with a Merkle branch no longer than the leaf is deep; it is the value
\* derive_spend_info gives in one step.
EveryLeafHasControlBlock ==
    it_pc = "derived" =>
        /\ res.data # None
        /\ spine = "free" => res.data.val = derive_spend_info(desc)
        /\ \A i \in 1..Len(ExpectedItems) :
              \A cb \in {control_block(res.data.val, encode(ExpectedItems[i][2]))} :
                  cb # None /\ cb.val.branch_len <= ExpectedItems[i][1]

\* C22: for the tree of every descriptor, add_leaf fails for no leaf fed in
\* DFS order at its depth and finalize succeeds, and the spend info has a
\* control block for every leaf: the expect and unreachable! of spend_info
\* and the control-block lookup of best_tap_spend do not fire.
C22_BuilderAcceptsTree == BuilderAccepts /\ EveryLeafHasControlBlock

\* The derivation has ended for a tree of the greatest height, 128: the
\* deepest leaf has a control block with 128 hashes.
C22_Witness ==
    /\ it_pc = "derived"
    /\ height(desc.tree) = TAPROOT_CONTROL_MAX_NODE_COUNT
    /\ Len(it_out) = TAPROOT_CONTROL_MAX_NODE_COUNT + 1
    /\ [script |-> encode(msA), branch_len |-> TAPROOT_CONTROL_MAX_NODE_COUNT]
          \in res.data.val.script_map

----------------------------------------------------------------------------
(* C23: the length of the control block of a leaf's witness (SpecPlan)     *)

\* The leaves the planner has formed a witness for, with a control block.
Witnessed ==
    IF Planned THEN {i \in 1..Len(res.calls) : res.calls[i].cb # None} ELSE {}

\* The length of the control block pushed on the witness of the i-th leaf.
PushedLen(i) == ItemBytes(TapControlBlock(res.calls[i].cb.val))

\* The smallest depth at which the script of the i-th of the leaves occurs.
LeastDepth(leaves, i) ==
    CHOOSE m \in {leaves[j][1] : j \in {k \in 1..Len(leaves) : leaves[k][2] = leaves[i][2]}} :
        \A j \in 1..Len(leaves) : leaves[j][2] = leaves[i][2] => m <= leaves[j][1]

\* C23 as stated: the control block on the witness of every leaf has the
\* length control_block_len of the depth of the leaf, 33 + 32 * depth.
C23_LengthAtDepth ==
    \A leaves \in {PlanLeaves} :
        \A i \in Witnessed : PushedLen(i) = control_block_len(leaves[i][1])

\* C23 as amended: the control block on the witness of a leaf has the length
\* control_block_len of the smallest depth at which the leaf's script occurs
\* in the tree: at most that of the leaf's depth, and 65 for both leaves of a
\* tree of two leaves.
C23_LengthAtLeastDepth ==
    \A leaves \in {PlanLeaves} :
        \A i \in Witnessed :
            \A least \in {LeastDepth(leaves, i)} :
                /\ PushedLen(i) = control_block_len(least)
                /\ PushedLen(i) <= control_block_len(leaves[i][1])
                /\ least = leaves[i][1] => PushedLen(i) = 33 + 32 * leaves[i][1]
                /\ Len(leaves) = 2 => PushedLen(i) = 65

\* The script pk(k1) is a leaf at depth 1 and at depth 2: the witness of the
\* leaf at depth 2 has a control block of 65 bytes.
C23_Witness ==
    \E i \in Witnessed :
        /\ PlanLeaves[i] = <<2, msA>>
        /\ LeastDepth(PlanLeaves, i) = 1
        /\ PushedLen(i) = 65

----------------------------------------------------------------------------
(* C24: the callers of spend_info under a fair scheduler (SpecFair)        *)

\* The Mutex is held by a thread only between its first lock() and the
\* return or the drop: not while it waits, derives, or is about to store.
LockOnlyAroundRead ==
    \A t \in Threads, i \in Instances :
        lock[i] = t <=> (th[t].pc = "read" /\ th[t].on = i)

\* Every returned value is the spend info of the descriptor.
ReturnedAreDerived ==
    \A t \in Threads :
        th[t].pc = "returned" =>
            /\ th[t].ret # None
            /\ th[t].ret.val.data = derive_spend_info(desc)

\* The thread is inside a call of spend_info.
InCall(t) == th[t].pc \in {"calling", "read", "compute", "store"}

\* C24: the Mutex is held for the first read of the slot and for the store,
\* not over the derivation; under a fair scheduler every caller returns (so
\* none waits for ever), and every returned value is the spend info of the
\* descriptor, so equal in content to every other.
C24_EveryCallerReturns ==
    /\ [](LockOnlyAroundRead /\ ReturnedAreDerived /\ NoPoison)
    /\ \A t \in Threads : InCall(t) ~> th[t].pc = "returned"

\* Two callers have overlapped, both have derived and returned: two Arcs of
\* equal content.
C24_Witness ==
    \E t, u \in Threads :
        /\ th[t].pc = "returned" /\ th[u].pc = "returned"
        /\ desc.tree # NoTree
        /\ th[t].ret.val.arc # th[u].ret.val.arc
        /\ th[t].ret.val.data = th[u].ret.val.data

----------------------------------------------------------------------------
(* C25: the stack of TapTreeIter over the tree of a descriptor (Spec)      *)

\* The number of nodes of a tree: of a spine of height h, its h branches and
\* h + 1 leaves.
RECURSIVE NNodes(_)
NNodes(t) ==
    IF t = NoTree THEN 0
    ELSE IF t.tag = "Spine" THEN 2 * t.height + 1
    ELSE IF t.tag = "Tree" THEN 1 + NNodes(t.left) + NNodes(t.right)
    ELSE 1

\* The iterator runs, or has run, over the tree of the descriptor.
IteratingDescriptor == desc # NoDesc /\ it_pc \in {"running", "done", "panic"}

\* C25: over the tree of a descriptor the stack of the iterator holds at
\* most height + 1 entries (at most 129), every depth on it is at most the
\* height (depth + 1 stays within the u8), and next() returns None after as
\* many turns of its loop as the tree has nodes.
C25_StackWithinHeight ==
    IteratingDescriptor =>
        /\ it_pc # "panic"
        /\ Len(it_stack) <= height(desc.tree) + 1
        /\ Len(it_stack) <= TAPROOT_CONTROL_MAX_NODE_COUNT + 1
        /\ \A i \in 1..Len(it_stack) :
              /\ it_stack[i][1] <= height(desc.tree)
              /\ it_stack[i][1] + 1 <= U8Max
        /\ res.steps + Len(it_stack) <= NNodes(desc.tree)
        /\ it_stack = <<>> => res.steps = NNodes(desc.tree)
        /\ it_pc = "done" => it_stack = <<>>

\* The iterator has gone down a tree of height 128 to its deepest leaf: 129
\* entries on the stack, the top one at depth 128.
C25_Witness ==
    /\ IteratingDescriptor
    /\ it_pc = "running"
    /\ height(desc.tree) = TAPROOT_CONTROL_MAX_NODE_COUNT
    /\ Len(it_stack) = TAPROOT_CONTROL_MAX_NODE_COUNT + 1
    /\ it_stack[Len(it_stack)][1] = TAPROOT_CONTROL_MAX_NODE_COUNT

====
